---- MODULE Spec2Model ----
(***************************************************************************)
(* Contract-Intelligence-Parser: the extraction-and-scoring pipeline of    *)
(* backend/app/services/contract_parser.py (ContractParser).               *)
(*                                                                         *)
(* Python values are tagged records: None, float, str, list, dict, bool.   *)
(* A dict is a function from its keys (strings) to values, so an omitted   *)
(* key and a key holding None are different values, as in the code.        *)
(***************************************************************************)
EXTENDS Integers, Sequences, FiniteSets, TLC

VARIABLES text, hashseed, raised, data, scores, gaps, pc, edits,
          files, contracts, queue, jobs, writes, response,
          arg, result

\* the variables of the parser pipeline and those of the upload service
pvars == <<text, hashseed, raised, data, scores, gaps, pc, edits>>
svars == <<files, contracts, queue, jobs, writes, response>>

\* the argument and the result of a single call of one function
cvars == <<arg, result>>

vars == <<pvars, svars, cvars>>

\* the upload service before any request: empty collections, empty queue
NoDocs == [id \in {} |-> [t |-> "none"]]
NoResponse == [op |-> "none"]

ServiceIdle ==
    /\ files = NoDocs
    /\ contracts = NoDocs
    /\ queue = <<>>
    /\ jobs = NoDocs
    /\ writes = NoDocs
    /\ response = NoResponse

\* no single call is being followed
NoCall ==
    /\ arg = [t |-> "none"]
    /\ result = [state |-> "none"]

(***************************************************************************)
(* Bounds of the model.                                                    *)
(***************************************************************************)
MaxEdits == 3
MaxTextLen == 2

(***************************************************************************)
(* Python values.                                                          *)
(***************************************************************************)
PyNone == [t |-> "none"]
PyFloat(n) == [t |-> "float", v |-> n]
PyStr(s) == [t |-> "str", v |-> s]
PyList(q) == [t |-> "list", v |-> q]
PyDict(f) == [t |-> "dict", v |-> f]
PyBool(b) == [t |-> "bool", v |-> b]

NoKeys == [k \in {} |-> PyNone]
EmptyDict == PyDict(NoKeys)
EmptyList == PyList(<<>>)

\* bool(x): None, 0.0, "", [], {} and False are falsy, everything else truthy
Truthy(x) ==
    CASE x.t = "none" -> FALSE
      [] x.t = "float" -> x.v # 0
      [] x.t = "str" -> x.v # ""
      [] x.t = "list" -> Len(x.v) > 0
      [] x.t = "dict" -> DOMAIN x.v # {}
      [] x.t = "bool" -> x.v

\* d.get(k, default) on a dict d
GetDefault(d, k, default) == IF k \in DOMAIN d.v THEN d.v[k] ELSE default

\* d.get(k) on a dict d
Get(d, k) == GetDefault(d, k, PyNone)

\* x.get(...) is an attribute of dict only: None.get raises AttributeError
HasGet(x) == x.t = "dict"

\* d[k] = val
SetKey(d, k, val) ==
    PyDict([x \in DOMAIN d.v \cup {k} |-> IF x = k THEN val ELSE d.v[x]])

\* del d[k]
DelKey(d, k) == PyDict([x \in DOMAIN d.v \ {k} |-> d.v[x]])

(***************************************************************************)
(* Outcome of a call: not made yet, returned a value, or raised.           *)
(***************************************************************************)
NotCalled == [state |-> "none"]
Return(val) == [state |-> "returned", v |-> val]
Raise(e) == [state |-> "raised", exc |-> e]

Returned(r) == r.state = "returned"

(***************************************************************************)
(* ContractParser.calculate_confidence_scores                              *)
(***************************************************************************)
ScoresInit ==
    [financial_completeness |-> 0, party_identification |-> 0,
     payment_terms_clarity |-> 0, sla_definition |-> 0,
     contact_information |-> 0, overall_score |-> 0]

\* "if cond: scores[k] += w"
AddIf(cond, w) == IF cond THEN w ELSE 0

\* slip: the currency line copies the weight of the line above it
FinancialCompletenessHeavy(financial) ==
    AddIf(Truthy(Get(financial, "total_value")), 15)
    + AddIf(Truthy(Get(financial, "currency")), 15)
    + AddIf(Truthy(Get(financial, "line_items")), 10)

\* slip: "= 10" instead of "+= 10" for line_items
FinancialCompletenessAssign(financial) ==
    LET a == AddIf(Truthy(Get(financial, "total_value")), 15)
        b == a + AddIf(Truthy(Get(financial, "currency")), 5)
    IN  IF Truthy(Get(financial, "line_items")) THEN 10 ELSE b

FinancialCompleteness(financial) ==
    AddIf(Truthy(Get(financial, "total_value")), 15)
    + AddIf(Truthy(Get(financial, "currency")), 5)
    + AddIf(Truthy(Get(financial, "line_items")), 10)

PartyIdentification(party) ==
    AddIf(Truthy(Get(party, "name")), 10)
    + AddIf(Truthy(Get(party, "legal_entity")), 8)
    + AddIf(Truthy(Get(party, "signatories")), 7)

PaymentTermsClarity(payment) ==
    AddIf(Truthy(Get(payment, "payment_terms")), 10)
    + AddIf(Truthy(Get(payment, "payment_methods")), 5)
    + AddIf(Truthy(Get(payment, "due_dates")), 5)

\* slip: the third check reads maintenance_terms
SlaDefinitionWrongKey(sla) ==
    AddIf(Truthy(Get(sla, "performance_metrics")), 8)
    + AddIf(Truthy(Get(sla, "penalty_clauses")), 4)
    + AddIf(Truthy(Get(sla, "maintenance_terms")), 3)

SlaDefinition(sla) ==
    AddIf(Truthy(Get(sla, "performance_metrics")), 8)
    + AddIf(Truthy(Get(sla, "penalty_clauses")), 4)
    + AddIf(Truthy(Get(sla, "support_terms")), 3)

\* contact_info = account.get("contact_info", {}) if account else {}
ContactInfoOf(account) ==
    IF Truthy(account) THEN GetDefault(account, "contact_info", EmptyDict)
    ELSE EmptyDict

ContactInformation(account) ==
    AddIf(Truthy(Get(ContactInfoOf(account), "email")), 5)
    + AddIf(Truthy(Get(ContactInfoOf(account), "phone")), 3)
    + AddIf(Truthy(account) /\ Truthy(Get(account, "account_numbers")), 2)

\* sum(scores.values())
SumValues(s) ==
    s.financial_completeness + s.party_identification
    + s.payment_terms_clarity + s.sla_definition
    + s.contact_information + s.overall_score

\* slip: the overall score subtracts the wrong entry
OverallScoreWrongEntry(s) == SumValues(s) - s.contact_information

\* scores["overall_score"] = sum(scores.values()) - scores["overall_score"]
OverallScore(s) == SumValues(s) - s.overall_score

\* the sections the scorer calls .get on without a guard
ScorerRaises(d) ==
    \/ ~HasGet(GetDefault(d, "financial_details", EmptyDict))
    \/ ~HasGet(GetDefault(d, "party_identification", EmptyDict))
    \/ ~HasGet(GetDefault(d, "payment_structure", EmptyDict))
    \/ ~HasGet(GetDefault(d, "service_level_agreements", EmptyDict))
    \/ ~HasGet(ContactInfoOf(GetDefault(d, "account_information", EmptyDict)))

calculate_confidence_scores(d) ==
    IF ScorerRaises(d) THEN Raise("AttributeError")
    ELSE
      LET s == [ScoresInit EXCEPT
                  !.financial_completeness =
                      @ + FinancialCompleteness(
                            GetDefault(d, "financial_details", EmptyDict)),
                  !.party_identification =
                      @ + PartyIdentification(
                            GetDefault(d, "party_identification", EmptyDict)),
                  !.payment_terms_clarity =
                      @ + PaymentTermsClarity(
                            GetDefault(d, "payment_structure", EmptyDict)),
                  !.sla_definition =
                      @ + SlaDefinition(
                            GetDefault(d, "service_level_agreements", EmptyDict)),
                  !.contact_information =
                      @ + ContactInformation(
                            GetDefault(d, "account_information", EmptyDict))]
      IN  Return([s EXCEPT !.overall_score = OverallScore(s)])

(***************************************************************************)
(* ContractParser.perform_gap_analysis                                     *)
(***************************************************************************)
LabelTotalValue == "Total contract value"
LabelLineItems == "Detailed line items"
LabelTaxInfo == "Tax information"
LabelPartyNames == "Party names"
LabelSignatories == "Authorized signatories"
LabelPaymentTerms == "Payment terms"
LabelPaymentMethods == "Payment methods"
LabelPerformanceMetrics == "Performance metrics"
LabelContactInfo == "Contact information"

RecDocumentation ==
    "Request additional contract documentation to fill missing fields"
RecManualReview ==
    "Consider manual review due to significant missing information"
RecVerifyValue ==
    "Verify contract value with client before processing payments"

\* "if cond: xs.append(label)"
AppendIf(xs, cond, label) == IF cond THEN Append(xs, label) ELSE xs

\* slip: the check reads the key "contact_information"
ContactInfoMissingWrongKey(account) ==
    ~Truthy(account) \/ ~Truthy(Get(account, "contact_information"))

\* not account or not account.get("contact_info")
ContactInfoMissing(account) ==
    ~Truthy(account) \/ ~Truthy(Get(account, "contact_info"))

\* slip: the signatories item is evaluated before the party-name item
MissingFieldsReordered(d) ==
    LET financial == GetDefault(d, "financial_details", EmptyDict)
        party == GetDefault(d, "party_identification", EmptyDict)
        payment == GetDefault(d, "payment_structure", EmptyDict)
        sla == GetDefault(d, "service_level_agreements", EmptyDict)
        account == GetDefault(d, "account_information", EmptyDict)
        m1 == AppendIf(<<>>, ~Truthy(Get(financial, "total_value")),
                       LabelTotalValue)
        m2 == AppendIf(m1, ~Truthy(Get(financial, "line_items")),
                       LabelLineItems)
        m3 == AppendIf(m2, ~Truthy(Get(party, "signatories")),
                       LabelSignatories)
        m4 == AppendIf(m3, ~Truthy(Get(party, "name")), LabelPartyNames)
        m5 == AppendIf(m4, ~Truthy(Get(payment, "payment_terms")),
                       LabelPaymentTerms)
        m6 == AppendIf(m5, ~Truthy(Get(payment, "payment_methods")),
                       LabelPaymentMethods)
        m7 == AppendIf(m6, ~Truthy(Get(sla, "performance_metrics")),
                       LabelPerformanceMetrics)
        m8 == AppendIf(m7, ContactInfoMissing(account), LabelContactInfo)
    IN  m8

\* the list without the total-value item
MissingFieldsNoTotal(d) ==
    LET financial == GetDefault(d, "financial_details", EmptyDict)
        party == GetDefault(d, "party_identification", EmptyDict)
        payment == GetDefault(d, "payment_structure", EmptyDict)
        sla == GetDefault(d, "service_level_agreements", EmptyDict)
        account == GetDefault(d, "account_information", EmptyDict)
        m1 == <<>>
        m2 == AppendIf(m1, ~Truthy(Get(financial, "line_items")),
                       LabelLineItems)
        m3 == AppendIf(m2, ~Truthy(Get(party, "name")), LabelPartyNames)
        m4 == AppendIf(m3, ~Truthy(Get(party, "signatories")),
                       LabelSignatories)
        m5 == AppendIf(m4, ~Truthy(Get(payment, "payment_terms")),
                       LabelPaymentTerms)
        m6 == AppendIf(m5, ~Truthy(Get(payment, "payment_methods")),
                       LabelPaymentMethods)
        m7 == AppendIf(m6, ~Truthy(Get(sla, "performance_metrics")),
                       LabelPerformanceMetrics)
        m8 == AppendIf(m7, ContactInfoMissing(account), LabelContactInfo)
    IN  m8

MissingFields(d) ==
    LET financial == GetDefault(d, "financial_details", EmptyDict)
        party == GetDefault(d, "party_identification", EmptyDict)
        payment == GetDefault(d, "payment_structure", EmptyDict)
        sla == GetDefault(d, "service_level_agreements", EmptyDict)
        account == GetDefault(d, "account_information", EmptyDict)
        m1 == AppendIf(<<>>, ~Truthy(Get(financial, "total_value")),
                       LabelTotalValue)
        m2 == AppendIf(m1, ~Truthy(Get(financial, "line_items")),
                       LabelLineItems)
        m3 == AppendIf(m2, ~Truthy(Get(party, "name")), LabelPartyNames)
        m4 == AppendIf(m3, ~Truthy(Get(party, "signatories")),
                       LabelSignatories)
        m5 == AppendIf(m4, ~Truthy(Get(payment, "payment_terms")),
                       LabelPaymentTerms)
        m6 == AppendIf(m5, ~Truthy(Get(payment, "payment_methods")),
                       LabelPaymentMethods)
        m7 == AppendIf(m6, ~Truthy(Get(sla, "performance_metrics")),
                       LabelPerformanceMetrics)
        m8 == AppendIf(m7, ContactInfoMissing(account), LabelContactInfo)
    IN  m8

IncompleteSections(d) ==
    AppendIf(<<>>,
             ~Truthy(Get(GetDefault(d, "financial_details", EmptyDict),
                         "tax_info")),
             LabelTaxInfo)

\* slip: ">= 5" instead of "> 5"
RecommendationsOffByOne(missing_fields, financial) ==
    LET r1 == AppendIf(<<>>, Len(missing_fields) > 0, RecDocumentation)
        r2 == AppendIf(r1, Len(missing_fields) >= 5, RecManualReview)
        r3 == AppendIf(r2, ~Truthy(Get(financial, "total_value")),
                       RecVerifyValue)
    IN  r3

Recommendations(missing_fields, financial) ==
    LET r1 == AppendIf(<<>>, Len(missing_fields) > 0, RecDocumentation)
        r2 == AppendIf(r1, Len(missing_fields) > 5, RecManualReview)
        r3 == AppendIf(r2, ~Truthy(Get(financial, "total_value")),
                       RecVerifyValue)
    IN  r3

\* the sections the analyzer calls .get on without a guard
AnalyzerRaises(d) ==
    \/ ~HasGet(GetDefault(d, "financial_details", EmptyDict))
    \/ ~HasGet(GetDefault(d, "party_identification", EmptyDict))
    \/ ~HasGet(GetDefault(d, "payment_structure", EmptyDict))
    \/ ~HasGet(GetDefault(d, "service_level_agreements", EmptyDict))

perform_gap_analysis(d) ==
    IF AnalyzerRaises(d) THEN Raise("AttributeError")
    ELSE Return(
           [missing_fields |-> MissingFields(d),
            incomplete_sections |-> IncompleteSections(d),
            recommendations |->
                Recommendations(MissingFields(d),
                                GetDefault(d, "financial_details", EmptyDict))])

(***************************************************************************)
(* The six sections of ExtractedData and the keys the extractors give      *)
(* them.                                                                   *)
(***************************************************************************)
Sections ==
    {"party_identification", "account_information", "financial_details",
     "payment_structure", "revenue_classification",
     "service_level_agreements"}

SectionKeys(sec) ==
    CASE sec = "party_identification" ->
           {"name", "legal_entity", "registration_details", "signatories",
            "roles"}
      [] sec = "account_information" ->
           {"billing_details", "account_numbers", "contact_info"}
      [] sec = "financial_details" ->
           {"line_items", "total_value", "currency", "tax_info",
            "additional_fees"}
      [] sec = "payment_structure" ->
           {"payment_terms", "due_dates", "payment_methods",
            "banking_details"}
      [] sec = "revenue_classification" ->
           {"payment_type", "billing_cycle", "renewal_terms", "auto_renewal"}
      [] sec = "service_level_agreements" ->
           {"performance_metrics", "penalty_clauses", "support_terms",
            "maintenance_terms"}

\* ContractParser._get_empty_extracted_data
EmptyExtractedData == PyDict([sec \in Sections |-> EmptyDict])

\* the section literals the six extractors start from (no match found)
DefaultPartyInfo ==
    PyDict([name |-> PyNone, legal_entity |-> PyNone,
            registration_details |-> PyNone, signatories |-> EmptyList,
            roles |-> EmptyList])

DefaultAccountInfo ==
    PyDict([billing_details |-> PyNone, account_numbers |-> EmptyList,
            contact_info |-> EmptyDict])

\* slip: the currency starts as None
DefaultFinancialDetailsNoCurrency ==
    PyDict([line_items |-> EmptyList, total_value |-> PyNone,
            currency |-> PyNone, tax_info |-> EmptyDict,
            additional_fees |-> EmptyList])

DefaultFinancialDetails ==
    PyDict([line_items |-> EmptyList, total_value |-> PyNone,
            currency |-> PyStr("USD"), tax_info |-> EmptyDict,
            additional_fees |-> EmptyList])

DefaultPaymentStructure ==
    PyDict([payment_terms |-> PyNone, due_dates |-> EmptyList,
            payment_methods |-> EmptyList, banking_details |-> EmptyDict])

DefaultRevenueClassification ==
    PyDict([payment_type |-> PyNone, billing_cycle |-> PyNone,
            renewal_terms |-> PyNone, auto_renewal |-> PyNone])

\* slip: the literal leaves out maintenance_terms
DefaultSlaInfoShort ==
    PyDict([performance_metrics |-> EmptyList, penalty_clauses |-> EmptyList,
            support_terms |-> PyNone])

DefaultSlaInfo ==
    PyDict([performance_metrics |-> EmptyList, penalty_clauses |-> EmptyList,
            support_terms |-> PyNone, maintenance_terms |-> PyNone])

\* complete_data of test_confidence_scores_with_complete_data
complete_data ==
    PyDict(
      [party_identification |->
         PyDict([name |-> PyStr("Test Corp"),
                 legal_entity |-> PyStr("Test Corp Inc."),
                 signatories |-> PyList(<<"John Doe">>)]),
       account_information |->
         PyDict([account_numbers |-> PyList(<<"ACC-123">>),
                 contact_info |->
                   PyDict([email |-> PyStr("test@test.com"),
                           phone |-> PyStr("555-1234")])]),
       financial_details |->
         PyDict([total_value |-> PyFloat(10000), currency |-> PyStr("USD"),
                 line_items |-> PyList(<<"service">>)]),
       payment_structure |->
         PyDict([payment_terms |-> PyStr("Net 30"),
                 payment_methods |-> PyList(<<"check">>),
                 due_dates |-> PyList(<<"2024-01-01">>)]),
       service_level_agreements |->
         PyDict([performance_metrics |-> PyList(<<"99% uptime">>),
                 penalty_clauses |-> PyList(<<"5% penalty">>),
                 support_terms |-> PyStr("24/7 support")])])

\* minimal_data of test_perform_gap_analysis is EmptyExtractedData

(***************************************************************************)
(* Contract text.  A text is a sequence of tokens: a whitespace character  *)
(* or a lexeme, a fragment that ends in ';' so that no pattern of the      *)
(* extractors matches across two tokens.  The string the code sees is the  *)
(* concatenation of the tokens.                                            *)
(***************************************************************************)
Whitespace == {" ", "\t", "\n"}

Lexemes ==
    {"ABC Inc.;", "Signed by: John Smith;", "Account Number: ACC-12345;",
     "a@b.io;", "555-123-4567;", "$50,000;", "$0;", "$,;", "eur;",
     "Net 30;", "wire transfer;", "Monthly;", "9% uptime;",
     "Penalty: 5% fee.;"}

Tokens == Whitespace \cup Lexemes

\* re.sub(r'\s+', ' ', text): every maximal run of whitespace becomes " "
RECURSIVE CollapseWhitespace(_)
CollapseWhitespace(q) ==
    IF q = <<>> THEN <<>>
    ELSE IF Head(q) \in Whitespace
         THEN IF Len(q) > 1 /\ q[2] \in Whitespace
              THEN CollapseWhitespace(Tail(q))
              ELSE <<" ">> \o CollapseWhitespace(Tail(q))
         ELSE <<Head(q)>> \o CollapseWhitespace(Tail(q))

\* text.strip()
RECURSIVE StripLeft(_)
StripLeft(q) ==
    IF q # <<>> /\ Head(q) \in Whitespace THEN StripLeft(Tail(q)) ELSE q

RECURSIVE StripRight(_)
StripRight(q) ==
    IF q # <<>> /\ q[Len(q)] \in Whitespace
    THEN StripRight(SubSeq(q, 1, Len(q) - 1))
    ELSE q

Strip(q) == StripRight(StripLeft(q))

\* slip: the strip() line is missing
clean_text_unstripped(q) == CollapseWhitespace(q)

\* ContractParser._clean_text, on the tokens of a str
clean_text(q) == Strip(CollapseWhitespace(q))

(***************************************************************************)
(* Regular expressions.  A match is its whole text g0 and its groups g.    *)
(* Matches(p, tok) lists the matches of pattern p inside one token, in     *)
(* order, as Python's re finds them (flags as at the call site).           *)
(***************************************************************************)
Match(g0, groups) == [g0 |-> g0, g |-> groups]

Matches(p, tok) ==
    CASE p = "company_bare" /\ tok = "ABC Inc.;" ->
           <<Match("ABC Inc.", <<"ABC Inc.">>)>>
      [] p = "signed_by" /\ tok = "Signed by: John Smith;" ->
           <<Match("Signed by: John Smith", <<"John Smith">>)>>
      [] p = "signed_by" /\ tok = "Signed by: Ann;" ->
           <<Match("Signed by: Ann", <<"Ann">>)>>
      [] p = "signed_by" /\ tok = "Signed by: Bob;" ->
           <<Match("Signed by: Bob", <<"Bob">>)>>
      [] p = "signed_by" /\ tok = "Signed by: Cid;" ->
           <<Match("Signed by: Cid", <<"Cid">>)>>
      [] p = "signed_by" /\ tok = "Signed by: Dan;" ->
           <<Match("Signed by: Dan", <<"Dan">>)>>
      [] p = "signed_by" /\ tok = "Signed by: Eve;" ->
           <<Match("Signed by: Eve", <<"Eve">>)>>
      [] p = "account_number" /\ tok = "Account Number: ACC-12345;" ->
           <<Match("Account Number: ACC-12345", <<"ACC-12345">>)>>
      [] p = "email" /\ tok = "a@b.io;" -> <<Match("a@b.io", <<>>)>>
      [] p = "phone" /\ tok = "555-123-4567;" ->
           <<Match("555-123-4567", <<"555", "123", "4567">>)>>
      [] p = "money_prefixed" /\ tok = "$50,000;" ->
           <<Match("$50,000", <<"50,000">>)>>
      [] p = "money_prefixed" /\ tok = "$0;" -> <<Match("$0", <<"0">>)>>
      [] p = "money_prefixed" /\ tok = "$,;" -> <<Match("$,", <<",">>)>>
      [] p = "money_suffixed" /\ tok = "5 dollars;" ->
           <<Match("5 dollars", <<"5">>)>>
      [] p = "money_total" /\ tok = "Total: 70;" ->
           <<Match("Total: 70", <<"70">>)>>
      [] p = "money_prefixed" /\ tok = "Amount: $9;" ->
           <<Match("$9", <<"9">>)>>
      [] p = "money_amount" /\ tok = "Amount: $9;" ->
           <<Match("Amount: $9", <<"9">>)>>
      [] p = "currency" /\ tok = "eur;" -> <<Match("eur", <<"eur">>)>>
      [] p = "net" /\ tok = "Net 30;" -> <<Match("Net 30", <<"30">>)>>
      [] p = "payment_terms" /\ tok = "Payment terms: 45 days.;" ->
           <<Match("Payment terms: 45 days", <<"45 days">>)>>
      [] p = "due_within" /\ tok = "Due within 15 days;" ->
           <<Match("Due within 15 days", <<"15 days">>)>>
      [] p = "payment_method" /\ tok = "wire transfer;" ->
           <<Match("wire transfer", <<>>)>>
      [] p = "billing_cycle" /\ tok = "Monthly;" ->
           <<Match("Monthly", <<"Monthly">>)>>
      [] p = "uptime" /\ tok = "9% uptime;" ->
           <<Match("9% uptime", <<"9% uptime">>)>>
      [] p = "penalty" /\ tok = "Penalty: 5% fee.;" ->
           <<Match("Penalty: 5% fee", <<"Penalty: 5% fee">>)>>
      [] OTHER -> <<>>

\* all matches of p in the text, left to right
RECURSIVE AllMatches(_, _)
AllMatches(p, q) ==
    IF q = <<>> THEN <<>>
    ELSE Matches(p, Head(q)) \o AllMatches(p, Tail(q))

\* what re.findall returns for one match: the match, its group, or the
\* tuple of its groups
FindAllItem(m) ==
    IF Len(m.g) = 0 THEN m.g0
    ELSE IF Len(m.g) = 1 THEN m.g[1]
    ELSE m.g

\* re.findall(p, text, flags)
FindAll(p, q) == [i \in 1..Len(AllMatches(p, q)) |-> FindAllItem(AllMatches(p, q)[i])]

\* re.search(p, text, flags) found a match
Found(p, q) == AllMatches(p, q) # <<>>

\* re.search(p, text, flags): the leftmost match
Search(p, q) == AllMatches(p, q)[1]

\* the matches of each pattern of a list, pattern after pattern
RECURSIVE FindAllOf(_, _)
FindAllOf(patterns, q) ==
    IF patterns = <<>> THEN <<>>
    ELSE FindAll(Head(patterns), q) \o FindAllOf(Tail(patterns), q)

\* str.lower() and str.upper() of the matched texts
Lower(s) == CASE s = "Monthly" -> "monthly" [] OTHER -> s
Upper(s) == CASE s = "eur" -> "EUR" [] OTHER -> s

\* keyword in text.lower()
RECURSIVE Contains(_, _)
Contains(q, keyword) ==
    IF q = <<>> THEN FALSE
    ELSE \/ (Head(q) = "Monthly;" /\ keyword = "monthly")
         \/ Contains(Tail(q), keyword)

\* any(keyword in text_lower for keyword in keywords)
ContainsAny(q, keywords) == \E keyword \in keywords : Contains(q, keyword)

\* float(match.replace(',', '')): ValueError when no digits are left
ParseFloat(s) ==
    CASE s = "50,000" -> Return(50000)
      [] s = "0" -> Return(0)
      [] s = "5" -> Return(5)
      [] s = "70" -> Return(70)
      [] s = "9" -> Return(9)
      [] s = "," -> Raise("ValueError")

(***************************************************************************)
(* list(set(xs)).  The iteration order of a set of str depends on the      *)
(* string hashes of the process; the model keeps two of the orders the     *)
(* interpreter can produce.                                                *)
(***************************************************************************)
HashSeeds == {"first_seen", "last_seen"}

RECURSIVE Dedupe(_)
Dedupe(q) ==
    IF q = <<>> THEN <<>>
    ELSE LET rest == Dedupe(SubSeq(q, 1, Len(q) - 1))
         IN  IF \E i \in 1..Len(rest) : rest[i] = q[Len(q)]
             THEN rest
             ELSE Append(rest, q[Len(q)])

Reverse(q) == [i \in 1..Len(q) |-> q[Len(q) + 1 - i]]

ListOfSet(q, seed) ==
    IF seed = "first_seen" THEN Dedupe(q) ELSE Reverse(Dedupe(q))

\* xs[:n]
Prefix(q, n) == SubSeq(q, 1, IF Len(q) < n THEN Len(q) ELSE n)

(***************************************************************************)
(* The six extractors.                                                     *)
(***************************************************************************)
company_patterns == <<"company_bare", "company_quoted">>
signatory_patterns == <<"signed_by", "signature", "authorized_by">>
account_patterns == <<"account_number", "customer_id", "reference_number">>
money_patterns ==
    <<"money_prefixed", "money_suffixed", "money_total", "money_amount">>
payment_terms_patterns == <<"net", "payment_terms", "due_within">>
payment_methods_patterns == <<"payment_method">>
performance_patterns == <<"uptime", "response_time", "availability">>
penalty_patterns == <<"penalty", "liquidated_damages", "service_credits">>

recurring_keywords ==
    {"monthly", "quarterly", "annually", "subscription", "recurring"}
one_time_keywords == {"one-time", "lump sum", "upfront", "single payment"}
auto_renewal_keywords == {"auto-renew", "automatically renew", "auto renewal"}

\* "companies.append(match[0] if match[0] else match[1])" for a tuple
CompanyOf(item) ==
    IF item \in STRING THEN item
    ELSE IF item[1] # "" THEN item[1] ELSE item[2]

Companies(q) ==
    [i \in 1..Len(FindAllOf(company_patterns, q)) |->
        CompanyOf(FindAllOf(company_patterns, q)[i])]

\* slip: only name is assigned, legal_entity stays None
extract_party_info_name_only(q, seed) ==
    LET party_info == DefaultPartyInfo
        named ==
            IF Companies(q) # <<>>
            THEN SetKey(party_info, "name", PyStr(Companies(q)[1]))
            ELSE party_info
    IN  SetKey(named, "signatories",
               PyList(Prefix(ListOfSet(FindAllOf(signatory_patterns, q), seed),
                             5)))

extract_party_info(q, seed) ==
    LET party_info == DefaultPartyInfo
        named ==
            IF Companies(q) # <<>>
            THEN SetKey(SetKey(party_info, "name", PyStr(Companies(q)[1])),
                        "legal_entity", PyStr(Companies(q)[1]))
            ELSE party_info
    IN  SetKey(named, "signatories",
               PyList(Prefix(ListOfSet(FindAllOf(signatory_patterns, q), seed),
                             5)))

\* f"({phones[0][0]}) {phones[0][1]}-{phones[0][2]}"
FormatPhone(groups) ==
    CASE groups = <<"555", "123", "4567">> -> "(555) 123-4567"

extract_account_info(q, seed) ==
    LET account_info ==
            SetKey(DefaultAccountInfo, "account_numbers",
                   PyList(ListOfSet(FindAllOf(account_patterns, q), seed)))
        emails == FindAll("email", q)
        phones == FindAll("phone", q)
        contact1 ==
            IF emails # <<>> THEN SetKey(EmptyDict, "email", PyStr(emails[1]))
            ELSE EmptyDict
        contact2 ==
            IF phones # <<>>
            THEN SetKey(contact1, "phone", PyStr(FormatPhone(phones[1])))
            ELSE contact1
    IN  SetKey(account_info, "contact_info", contact2)

\* the amounts that parse, in order; a ValueError skips the match
RECURSIVE Amounts(_)
Amounts(matches) ==
    IF matches = <<>> THEN <<>>
    ELSE IF Returned(ParseFloat(Head(matches)))
         THEN <<ParseFloat(Head(matches)).v>> \o Amounts(Tail(matches))
         ELSE Amounts(Tail(matches))

\* slip: amounts[0] instead of max(amounts)
FirstAmount(q) == q[1]

\* max(amounts)
Max(q) == CHOOSE x \in {q[i] : i \in 1..Len(q)} :
              \A i \in 1..Len(q) : q[i] <= x

extract_financial_details(q) ==
    LET amounts == Amounts(FindAllOf(money_patterns, q))
        valued ==
            IF amounts # <<>>
            THEN SetKey(DefaultFinancialDetails, "total_value",
                        PyFloat(Max(amounts)))
            ELSE DefaultFinancialDetails
    IN  IF Found("currency", q)
        THEN SetKey(valued, "currency",
                    PyStr(Upper(Search("currency", q).g[1])))
        ELSE valued

\* slip: the match that comes first in the text decides
RECURSIVE EarliestMatchFound(_, _)
EarliestMatchFound(patterns, q) ==
    IF q = <<>> THEN PyNone
    ELSE IF \E i \in 1..Len(patterns) : Matches(patterns[i], Head(q)) # <<>>
         THEN PyStr(Matches(patterns[CHOOSE i \in 1..Len(patterns) :
                                       Matches(patterns[i], Head(q)) # <<>>],
                            Head(q))[1].g0)
         ELSE EarliestMatchFound(patterns, Tail(q))

\* the first pattern of the list that matches anywhere decides
RECURSIVE FirstPatternFound(_, _)
FirstPatternFound(patterns, q) ==
    IF patterns = <<>> THEN PyNone
    ELSE IF Found(Head(patterns), q)
         THEN PyStr(Search(Head(patterns), q).g0)
         ELSE FirstPatternFound(Tail(patterns), q)

extract_payment_structure(q, seed) ==
    SetKey(SetKey(DefaultPaymentStructure, "payment_terms",
                  FirstPatternFound(payment_terms_patterns, q)),
           "payment_methods",
           PyList(ListOfSet(FindAllOf(payment_methods_patterns, q), seed)))

extract_revenue_classification(q) ==
    LET has_recurring == ContainsAny(q, recurring_keywords)
        has_one_time == ContainsAny(q, one_time_keywords)
        payment_type ==
            IF has_recurring /\ has_one_time THEN PyStr("both")
            ELSE IF has_recurring THEN PyStr("recurring")
            ELSE IF has_one_time THEN PyStr("one-time")
            ELSE PyNone
        typed ==
            SetKey(DefaultRevenueClassification, "payment_type", payment_type)
        cycled ==
            IF Found("billing_cycle", q)
            THEN SetKey(typed, "billing_cycle",
                        PyStr(Lower(Search("billing_cycle", q).g[1])))
            ELSE typed
    IN  SetKey(cycled, "auto_renewal",
               PyBool(ContainsAny(q, auto_renewal_keywords)))

extract_sla_info(q) ==
    SetKey(SetKey(DefaultSlaInfo, "performance_metrics",
                  PyList(FindAllOf(performance_patterns, q))),
           "penalty_clauses", PyList(FindAllOf(penalty_patterns, q)))

(***************************************************************************)
(* ContractParser.parse_contract.  `fault` is the step of the try block in *)
(* which the interpreter raises (the normalizer or one of the six          *)
(* extractors), or "none"; a text that is not a str makes re.sub raise.    *)
(***************************************************************************)
Steps ==
    <<"clean_text", "party_identification", "account_information",
      "financial_details", "payment_structure", "revenue_classification",
      "service_level_agreements">>

Faults == {"none"} \cup {Steps[i] : i \in 1..Len(Steps)}

\* the step that raises in this call, or "none"
RaisedAt(t, fault) == IF t.t # "str" THEN "clean_text" ELSE fault

ExtractSection(sec, q, seed) ==
    CASE sec = "party_identification" -> extract_party_info(q, seed)
      [] sec = "account_information" -> extract_account_info(q, seed)
      [] sec = "financial_details" -> extract_financial_details(q)
      [] sec = "payment_structure" -> extract_payment_structure(q, seed)
      [] sec = "revenue_classification" -> extract_revenue_classification(q)
      [] sec = "service_level_agreements" -> extract_sla_info(q)

\* the sections extracted before step number n of Steps
SectionsBefore(n) == {Steps[i] : i \in 2..(n - 1)}

StepNumber(step) == CHOOSE i \in 1..Len(Steps) : Steps[i] = step

\* slip: the handler returns what was extracted before the fault
parse_contract_partial(t, seed, fault) ==
    IF t.t # "str" THEN Return(EmptyExtractedData)
    ELSE IF RaisedAt(t, fault) # "none"
    THEN Return(PyDict([sec \in Sections |->
                           IF sec \in SectionsBefore(StepNumber(fault))
                           THEN ExtractSection(sec, clean_text(t.v), seed)
                           ELSE EmptyDict]))
    ELSE Return(PyDict([sec \in Sections |->
                           ExtractSection(sec, clean_text(t.v), seed)]))

parse_contract(t, seed, fault) ==
    IF RaisedAt(t, fault) # "none"
    THEN Return(EmptyExtractedData)
    ELSE Return(PyDict([sec \in Sections |->
                           ExtractSection(sec, clean_text(t.v), seed)]))

(***************************************************************************)
(* ExtractedData values handed to the scorer and the analyzer: a caller    *)
(* builds one from a starting value by a bounded number of assignments.    *)
(***************************************************************************)
\* the keys calculate_confidence_scores and perform_gap_analysis read
ReadKeys(sec) ==
    CASE sec = "party_identification" -> {"name", "legal_entity", "signatories"}
      [] sec = "account_information" -> {"account_numbers", "contact_info"}
      [] sec = "financial_details" ->
           {"total_value", "currency", "line_items", "tax_info"}
      [] sec = "payment_structure" ->
           {"payment_terms", "payment_methods", "due_dates"}
      [] sec = "revenue_classification" -> {}
      [] sec = "service_level_agreements" ->
           {"performance_metrics", "penalty_clauses", "support_terms"}

ContactKeys == {"email", "phone"}

\* values of the declared type of each field (models.py), falsy and truthy
FieldValues(key) ==
    CASE key \in {"name", "legal_entity", "payment_terms", "support_terms",
                  "currency"} ->
           {PyNone, PyStr("Test Corp")}
      [] key = "total_value" -> {PyNone, PyFloat(0), PyFloat(10000)}
      [] key \in {"signatories", "line_items", "payment_methods", "due_dates",
                  "performance_metrics", "penalty_clauses",
                  "account_numbers"} ->
           {EmptyList, PyList(<<"John Doe">>)}
      [] key = "tax_info" -> {EmptyDict, PyDict([rate |-> PyFloat(8)])}
      [] key = "contact_info" -> {PyNone, EmptyDict}
      [] key \in ContactKeys -> {PyStr(""), PyStr("test@test.com")}

IsDictSection(d, sec) == sec \in DOMAIN d.v /\ HasGet(d.v[sec])

\* d[sec][key] = val
SetSectionKey(d, sec, key, val) == SetKey(d, sec, SetKey(d.v[sec], key, val))

\* d["account_information"]["contact_info"][key] = val
SetContactKey(d, key, val) ==
    SetSectionKey(d, "account_information", "contact_info",
                  SetKey(d.v["account_information"].v["contact_info"], key, val))

HasContactInfoDict(d) ==
    /\ IsDictSection(d, "account_information")
    /\ "contact_info" \in DOMAIN d.v["account_information"].v
    /\ HasGet(d.v["account_information"].v["contact_info"])

CanEdit(slot) ==
    /\ pc = "input"
    /\ Cardinality(edits) < MaxEdits
    /\ slot \notin edits

SetField(sec, key, val) ==
    /\ CanEdit(<<sec, key>>)
    /\ IsDictSection(data, sec)
    /\ IF key \in DOMAIN data.v[sec].v THEN data.v[sec].v[key] # val ELSE TRUE
    /\ data' = SetSectionKey(data, sec, key, val)
    /\ edits' = edits \cup {<<sec, key>>}
    /\ UNCHANGED <<text, hashseed, raised, scores, gaps, pc>>
    /\ UNCHANGED <<svars, cvars>>

SetContact(key, val) ==
    /\ CanEdit(<<"contact_info", key>>)
    /\ HasContactInfoDict(data)
    /\ Get(data.v["account_information"].v["contact_info"], key) # val
    /\ data' = SetContactKey(data, key, val)
    /\ edits' = edits \cup {<<"contact_info", key>>}
    /\ UNCHANGED <<text, hashseed, raised, scores, gaps, pc>>
    /\ UNCHANGED <<svars, cvars>>

\* d[sec] = None
NullSection(sec) ==
    /\ CanEdit(<<sec, "">>)
    /\ sec \in DOMAIN data.v
    /\ data' = SetKey(data, sec, PyNone)
    /\ edits' = edits \cup {<<sec, "">>}
    /\ UNCHANGED <<text, hashseed, raised, scores, gaps, pc>>
    /\ UNCHANGED <<svars, cvars>>

\* del d[sec]
DelSection(sec) ==
    /\ CanEdit(<<sec, "">>)
    /\ sec \in DOMAIN data.v
    /\ data' = DelKey(data, sec)
    /\ edits' = edits \cup {<<sec, "">>}
    /\ UNCHANGED <<text, hashseed, raised, scores, gaps, pc>>
    /\ UNCHANGED <<svars, cvars>>

\* confidence_scores = parser.calculate_confidence_scores(extracted_data)
Score ==
    /\ pc = "input"
    /\ scores' = calculate_confidence_scores(data)
    /\ pc' = "scored"
    /\ UNCHANGED <<text, hashseed, raised, data, gaps, edits>>
    /\ UNCHANGED <<svars, cvars>>

\* gap_analysis = parser.perform_gap_analysis(extracted_data)
Analyze ==
    /\ pc = "scored"
    /\ gaps' = perform_gap_analysis(data)
    /\ pc' = "analyzed"
    /\ UNCHANGED <<text, hashseed, raised, data, scores, edits>>
    /\ UNCHANGED <<svars, cvars>>

InitData ==
    /\ text = PyNone
    /\ hashseed = "first_seen"
    /\ raised = "none"
    /\ data \in {EmptyExtractedData, complete_data,
                 PyDict([party_identification |-> DefaultPartyInfo,
                         account_information |-> DefaultAccountInfo,
                         financial_details |-> DefaultFinancialDetails,
                         payment_structure |-> DefaultPaymentStructure,
                         revenue_classification |->
                             DefaultRevenueClassification,
                         service_level_agreements |-> DefaultSlaInfo])}
    /\ scores = NotCalled
    /\ gaps = NotCalled
    /\ pc = "input"
    /\ edits = {}
    /\ ServiceIdle
    /\ NoCall

NextData ==
    \/ \E sec \in Sections : \E key \in ReadKeys(sec) :
         \E val \in FieldValues(key) : SetField(sec, key, val)
    \/ \E key \in ContactKeys : \E val \in FieldValues(key) :
         SetContact(key, val)
    \/ \E sec \in Sections : NullSection(sec)
    \/ \E sec \in Sections : DelSection(sec)
    \/ Score
    \/ Analyze

SpecData == InitData /\ [][NextData]_vars

(***************************************************************************)
(* The pipeline on a text, as process_contract runs it: parse_contract,    *)
(* then calculate_confidence_scores, then perform_gap_analysis.            *)
(***************************************************************************)
\* the token sequences of at most n tokens
TokenSeqs(n) == UNION {[1..k -> Tokens] : k \in 0..n}

\* extracted_data = parser.parse_contract(text_content)
ParseContract(fault) ==
    /\ pc = "start"
    /\ raised' = RaisedAt(text, fault)
    /\ IF Returned(parse_contract(text, hashseed, fault))
       THEN /\ data' = parse_contract(text, hashseed, fault).v
            /\ pc' = "input"
       ELSE /\ data' = PyNone
            /\ pc' = "failed"
    /\ UNCHANGED <<text, hashseed, scores, gaps, edits>>
    /\ UNCHANGED <<svars, cvars>>

Init ==
    /\ text \in {PyNone} \cup {PyStr(q) : q \in TokenSeqs(MaxTextLen)}
    /\ hashseed \in HashSeeds
    /\ raised = "none"
    /\ data = PyNone
    /\ scores = NotCalled
    /\ gaps = NotCalled
    /\ pc = "start"
    /\ edits = {}
    /\ ServiceIdle
    /\ NoCall

Next ==
    \/ \E fault \in Faults : ParseContract(fault)
    \/ Score
    \/ Analyze

Spec == Init /\ [][Next]_vars

(***************************************************************************)
(* The upload service: routers/contracts.py, ContractService and the       *)
(* Celery job process_contract.  The document store holds two collections, *)
(* files and contracts, keyed by contract_id; queue is the Celery queue.   *)
(***************************************************************************)
PENDING == "pending"
PROCESSING == "processing"
COMPLETED == "completed"
FAILED == "failed"

\* the values uuid.uuid4() gives in this model
ContractIds == {"id-1", "id-2"}

\* 50MB
MaxFileSize == 50 * 1024 * 1024

\* --concurrency=2
WorkerConcurrency == 2

PdfType == "application/pdf"
ContentTypes == {PdfType, "text/plain"}

\* uploaded bytes: their length and, when they are a readable PDF, the text
\* of each page (<<>> for a page without text)
EmptyFile == [size |-> 0, pages |-> PyNone]
NotAPdf == [size |-> 9, pages |-> PyNone]
SamplePdf ==
    [size |-> MaxFileSize,
     pages |-> PyList(<< <<"$50,000;", " ", "Net 30;">>, <<>> >>)]
OversizePdf ==
    [size |-> MaxFileSize + 1, pages |-> PyList(<< <<"ABC Inc.;">> >>)]

Contents == {EmptyFile, NotAPdf, SamplePdf, OversizePdf}

\* texts of the exceptions
StoreError == "ServerSelectionTimeoutError: connection refused"
BrokerError == "OperationalError: broker unreachable"
FileNotFoundText == "File content not found"
ExtractErrorText == "Failed to extract text from PDF: No /Root object"

\* slip: the "if" is missing, the key is always written
SetAlways(doc, cond, k, val) ==
    [x \in DOMAIN doc \cup {k} |-> IF x = k THEN val ELSE doc[x]]

\* d[k] = val on a document, when cond
SetIf(doc, cond, k, val) ==
    IF cond
    THEN [x \in DOMAIN doc \cup {k} |-> IF x = k THEN val ELSE doc[x]]
    ELSE doc

\* slip: the gap_analysis lines are missing
update_doc_without_gaps(status, progress_percentage, error_message, extracted_data, confidence_scores, gap_analysis) ==
    SetIf(SetIf(SetIf(
        [status |-> status, progress_percentage |-> progress_percentage],
        Truthy(error_message), "error_message", error_message),
        Truthy(extracted_data), "extracted_data", extracted_data),
        Truthy(confidence_scores), "confidence_scores", confidence_scores)

\* update_doc of update_contract_status
update_doc(status, progress_percentage, error_message, extracted_data, confidence_scores, gap_analysis) ==
    SetIf(SetIf(SetIf(SetIf(
        [status |-> status, progress_percentage |-> progress_percentage],
        Truthy(error_message), "error_message", error_message),
        Truthy(extracted_data), "extracted_data", extracted_data),
        Truthy(confidence_scores), "confidence_scores", confidence_scores),
        Truthy(gap_analysis), "gap_analysis", gap_analysis)

\* {"$set": update_doc} on one document
SetFields(doc, upd) ==
    [x \in DOMAIN doc \cup DOMAIN upd |->
        IF x \in DOMAIN upd THEN upd[x] ELSE doc[x]]

\* slip: the filter is dropped, the update is applied to every record
UpdateEvery(id, upd) ==
    IF id \in DOMAIN contracts
    THEN /\ contracts' = [x \in DOMAIN contracts |->
                              SetFields(contracts[x], upd)]
         /\ writes' = [writes EXCEPT
                ![id] = Append(@, [status |-> upd.status,
                                   progress_percentage |->
                                       upd.progress_percentage])]
    ELSE UNCHANGED <<contracts, writes>>

\* contracts.update_one({"contract_id": id}, {"$set": upd}); a filter that
\* matches no document updates nothing
UpdateOne(id, upd) ==
    IF id \in DOMAIN contracts
    THEN /\ contracts' = [contracts EXCEPT ![id] = SetFields(@, upd)]
         /\ writes' = [writes EXCEPT
                ![id] = Append(@, [status |-> upd.status,
                                   progress_percentage |->
                                       upd.progress_percentage])]
    ELSE UNCHANGED <<contracts, writes>>

\* collection.insert_one(doc) with key id
InsertOne(coll, id, doc) ==
    [x \in DOMAIN coll \cup {id} |-> IF x = id THEN doc ELSE coll[x]]

\* file_doc and contract_doc of ContractService.upload_contract
file_doc(content, content_type) ==
    [content |-> content, content_type |-> content_type,
     size |-> content.size]

\* slip: the record is created in status PROCESSING
contract_doc_processing(file_size) ==
    [file_size |-> file_size,
     status |-> PROCESSING,
     progress_percentage |-> 0,
     error_message |-> PyNone,
     extracted_data |-> PyNone,
     confidence_scores |-> PyNone,
     gap_analysis |-> PyNone]

contract_doc(file_size) ==
    [file_size |-> file_size,
     status |-> PENDING,
     progress_percentage |-> 0,
     error_message |-> PyNone,
     extracted_data |-> PyNone,
     confidence_scores |-> PyNone,
     gap_analysis |-> PyNone]

UploadFaults == {"none", "insert_file", "insert_contract", "delay"}

UploadResponse(code, detail, id, content_type, content) ==
    [op |-> "upload", code |-> code, detail |-> detail, contract_id |-> id,
     content_type |-> content_type, size |-> content.size]

\* ContractService.upload_contract; fault is the call that raises
ServiceUpload(id, content_type, content, fault) ==
    /\ files' = IF fault = "insert_file" THEN files
                ELSE InsertOne(files, id, file_doc(content, content_type))
    /\ IF fault \in {"insert_file", "insert_contract"}
       THEN UNCHANGED <<contracts, writes>>
       ELSE /\ contracts' =
                   InsertOne(contracts, id, contract_doc(content.size))
            /\ writes' = InsertOne(writes, id,
                             <<[status |-> PENDING,
                                progress_percentage |-> 0]>>)
    /\ queue' = IF fault = "none" THEN Append(queue, id) ELSE queue
    /\ response' =
         IF fault = "none"
         THEN UploadResponse(200,
                  "Contract uploaded successfully. Processing started.",
                  id, content_type, content)
         ELSE UploadResponse(500,
                  IF fault = "delay" THEN BrokerError ELSE StoreError,
                  "", content_type, content)

\* slip: ">=" instead of ">" in the size check
UploadSizeInclusive(content_type, content, fault) ==
    /\ IF content_type # PdfType
       THEN /\ response' = UploadResponse(400, "Only PDF files are supported",
                                          "", content_type, content)
            /\ UNCHANGED <<files, contracts, queue, writes>>
       ELSE IF content.size >= MaxFileSize
       THEN /\ response' = UploadResponse(400, "File size exceeds 50MB limit",
                                          "", content_type, content)
            /\ UNCHANGED <<files, contracts, queue, writes>>
       ELSE \E id \in ContractIds \ (DOMAIN files \cup DOMAIN contracts) :
                ServiceUpload(id, content_type, content, fault)
    /\ UNCHANGED <<jobs, pvars, cvars>>

\* POST /upload
Upload(content_type, content, fault) ==
    /\ IF content_type # PdfType
       THEN /\ response' = UploadResponse(400, "Only PDF files are supported",
                                          "", content_type, content)
            /\ UNCHANGED <<files, contracts, queue, writes>>
       ELSE IF content.size > MaxFileSize
       THEN /\ response' = UploadResponse(400, "File size exceeds 50MB limit",
                                          "", content_type, content)
            /\ UNCHANGED <<files, contracts, queue, writes>>
       ELSE \E id \in ContractIds \ (DOMAIN files \cup DOMAIN contracts) :
                ServiceUpload(id, content_type, content, fault)
    /\ UNCHANGED <<jobs, pvars, cvars>>

(***************************************************************************)
(* process_contract(contract_id): one Celery job.  jobs[id] holds the      *)
(* position of the job and its local variables; every call to the store or *)
(* to the result backend either answers (ok) or raises.                    *)
(***************************************************************************)
NewJob ==
    [pc |-> "get_file_content", error |-> "", file_content |-> PyNone,
     text_content |-> PyNone, extracted_data |-> NotCalled,
     confidence_scores |-> NotCalled, gap_analysis |-> NotCalled]

At(id, at) == id \in DOMAIN jobs /\ jobs[id].pc = at

Finished(id) ==
    id \in DOMAIN jobs /\ jobs[id].pc \in {"done", "raised", "handler_raised"}

\* the except clause is entered with exception text e
Except(id, e) == [jobs EXCEPT ![id].pc = "except", ![id].error = e]

\* asyncio.run(update_contract_status(id, PROCESSING, progress_percentage=p))
WriteProgress(id, at, p, next, ok) ==
    /\ At(id, at)
    /\ IF ok
       THEN /\ UpdateOne(id, update_doc(PROCESSING, p, PyNone, PyNone,
                                        PyNone, PyNone))
            /\ jobs' = [jobs EXCEPT ![id].pc = next]
       ELSE /\ UNCHANGED <<contracts, writes>>
            /\ jobs' = Except(id, StoreError)
    /\ UNCHANGED <<files, queue, response, pvars, cvars>>

\* a worker takes the job from the queue and runs it up to the first write
StartProcessing(id, ok) ==
    /\ queue # <<>>
    /\ Head(queue) = id
    /\ Cardinality({j \in DOMAIN jobs : ~Finished(j)}) < WorkerConcurrency
    /\ queue' = Tail(queue)
    /\ IF ok
       THEN /\ UpdateOne(id, update_doc(PROCESSING, 10, PyNone, PyNone,
                                        PyNone, PyNone))
            /\ jobs' = InsertOne(jobs, id, NewJob)
       ELSE /\ UNCHANGED <<contracts, writes>>
            /\ jobs' = InsertOne(jobs, id,
                           [NewJob EXCEPT !.pc = "except",
                                          !.error = StoreError])
    /\ UNCHANGED <<files, response, pvars, cvars>>

\* file_content = asyncio.run(get_file_content(id)); if not file_content: raise
GetFileContent(id, ok) ==
    /\ At(id, "get_file_content")
    /\ jobs' =
         IF ~ok THEN Except(id, StoreError)
         ELSE IF id \notin DOMAIN files \/ files[id].content.size = 0
         THEN Except(id, FileNotFoundText)
         ELSE [jobs EXCEPT ![id].pc = "update_state",
                           ![id].file_content = files[id].content]
    /\ UNCHANGED <<files, contracts, queue, writes, response, pvars, cvars>>

\* current_task.update_state(state='PROGRESS', meta={'progress': 30, ...})
UpdateState(id, ok) ==
    /\ At(id, "update_state")
    /\ jobs' = IF ok THEN [jobs EXCEPT ![id].pc = "extract_pdf_text"]
               ELSE Except(id, BrokerError)
    /\ UNCHANGED <<files, contracts, queue, writes, response, pvars, cvars>>

\* the text of the pages that have text, each followed by "\n"
RECURSIVE PagesText(_)
PagesText(pages) ==
    IF pages = <<>> THEN <<>>
    ELSE (IF Head(pages) # <<>> THEN Head(pages) \o <<"\n">> ELSE <<>>)
         \o PagesText(Tail(pages))

extract_pdf_text(file_content) ==
    IF file_content.pages = PyNone THEN Raise(ExtractErrorText)
    ELSE Return(PyStr(PagesText(file_content.pages.v)))

\* slip: the extraction error is recorded but the job goes on without text
ExtractPdfTextContinues(id) ==
    /\ At(id, "extract_pdf_text")
    /\ LET r == extract_pdf_text(jobs[id].file_content)
       IN  jobs' = IF Returned(r)
                   THEN [jobs EXCEPT ![id].pc = "progress_50",
                                     ![id].text_content = r.v]
                   ELSE [jobs EXCEPT ![id].pc = "progress_50",
                                     ![id].error = r.exc]
    /\ UNCHANGED <<files, contracts, queue, writes, response, pvars, cvars>>

\* text_content = extract_pdf_text(file_content)
ExtractPdfText(id) ==
    /\ At(id, "extract_pdf_text")
    /\ LET r == extract_pdf_text(jobs[id].file_content)
       IN  jobs' = IF Returned(r)
                   THEN [jobs EXCEPT ![id].pc = "progress_50",
                                     ![id].text_content = r.v]
                   ELSE Except(id, r.exc)
    /\ UNCHANGED <<files, contracts, queue, writes, response, pvars, cvars>>

Progress50(id, ok) == WriteProgress(id, "progress_50", 50, "parse_contract", ok)

\* extracted_data = parser.parse_contract(text_content)
JobParseContract(id) ==
    /\ At(id, "parse_contract")
    /\ jobs' = [jobs EXCEPT
           ![id].pc = "progress_70",
           ![id].extracted_data =
               parse_contract(jobs[id].text_content, hashseed, "none")]
    /\ UNCHANGED <<files, contracts, queue, writes, response, pvars, cvars>>

Progress70(id, ok) == WriteProgress(id, "progress_70", 70, "score", ok)

\* confidence_scores = parser.calculate_confidence_scores(extracted_data)
\* gap_analysis = parser.perform_gap_analysis(extracted_data)
JobScoreAndAnalyze(id) ==
    /\ At(id, "score")
    /\ LET s == calculate_confidence_scores(jobs[id].extracted_data.v)
           g == perform_gap_analysis(jobs[id].extracted_data.v)
       IN  jobs' =
             IF ~Returned(s)
             THEN [Except(id, s.exc) EXCEPT ![id].confidence_scores = s]
             ELSE IF ~Returned(g)
             THEN [Except(id, g.exc) EXCEPT ![id].confidence_scores = s,
                                            ![id].gap_analysis = g]
             ELSE [jobs EXCEPT ![id].pc = "progress_90",
                               ![id].confidence_scores = s,
                               ![id].gap_analysis = g]
    /\ UNCHANGED <<files, contracts, queue, writes, response, pvars, cvars>>

Progress90(id, ok) == WriteProgress(id, "progress_90", 90, "save_results", ok)

\* slip: a statement after the COMPLETED write raises inside the try block
SaveResultsThenRaise(id, ok) ==
    /\ At(id, "save_results")
    /\ IF ok
       THEN /\ UpdateOne(id, update_doc(COMPLETED, 100, PyNone,
                                 jobs[id].extracted_data.v,
                                 PyDict(jobs[id].confidence_scores.v),
                                 PyDict(jobs[id].gap_analysis.v)))
            /\ jobs' = Except(id, "logging failed")
       ELSE /\ UNCHANGED <<contracts, writes>>
            /\ jobs' = Except(id, StoreError)
    /\ UNCHANGED <<files, queue, response, pvars, cvars>>

\* update_contract_status(id, COMPLETED, 100, extracted_data=...,
\* confidence_scores=..., gap_analysis=...), then return
SaveResults(id, ok) ==
    /\ At(id, "save_results")
    /\ IF ok
       THEN /\ UpdateOne(id, update_doc(COMPLETED, 100, PyNone,
                                 jobs[id].extracted_data.v,
                                 PyDict(jobs[id].confidence_scores.v),
                                 PyDict(jobs[id].gap_analysis.v)))
            /\ jobs' = [jobs EXCEPT ![id].pc = "done"]
       ELSE /\ UNCHANGED <<contracts, writes>>
            /\ jobs' = Except(id, StoreError)
    /\ UNCHANGED <<files, queue, response, pvars, cvars>>

\* except Exception as e: update_contract_status(id, FAILED,
\* error_message=str(e)); raise.  The job ends at "raised" with e re-raised,
\* or at "handler_raised" when the write in the handler raises itself.
HandleFailure(id, ok) ==
    /\ At(id, "except")
    /\ IF ok
       THEN /\ UpdateOne(id, update_doc(FAILED, 0, PyStr(jobs[id].error),
                                        PyNone, PyNone, PyNone))
            /\ jobs' = [jobs EXCEPT ![id].pc = "raised"]
       ELSE /\ UNCHANGED <<contracts, writes>>
            /\ jobs' = [jobs EXCEPT ![id].pc = "handler_raised"]
    /\ UNCHANGED <<files, queue, response, pvars, cvars>>

JobStep(id) ==
    \/ \E ok \in BOOLEAN : StartProcessing(id, ok)
    \/ \E ok \in BOOLEAN : GetFileContent(id, ok)
    \/ \E ok \in BOOLEAN : UpdateState(id, ok)
    \/ ExtractPdfText(id)
    \/ \E ok \in BOOLEAN : Progress50(id, ok)
    \/ JobParseContract(id)
    \/ \E ok \in BOOLEAN : Progress70(id, ok)
    \/ JobScoreAndAnalyze(id)
    \/ \E ok \in BOOLEAN : Progress90(id, ok)
    \/ \E ok \in BOOLEAN : SaveResults(id, ok)
    \/ \E ok \in BOOLEAN : HandleFailure(id, ok)

InitService ==
    /\ text = PyNone
    /\ hashseed = "first_seen"
    /\ raised = "none"
    /\ data = PyNone
    /\ scores = NotCalled
    /\ gaps = NotCalled
    /\ pc = "service"
    /\ edits = {}
    /\ ServiceIdle
    /\ NoCall

NextJobs ==
    \/ \E content_type \in ContentTypes : \E content \in Contents :
         \E fault \in UploadFaults : Upload(content_type, content, fault)
    \/ \E id \in ContractIds : JobStep(id)

SpecJobs == InitService /\ [][NextJobs]_vars

(***************************************************************************)
(* The read endpoints of routers/contracts.py.  A handler's answer is a    *)
(* function of the contracts collection at the time of the request.        *)
(***************************************************************************)
\* str(HTTPException(404, "Contract not found")): "404: Contract not found"
\* where the class defines __str__, "" where it does not
HttpExceptionTexts == {"404: Contract not found", ""}

\* GET /{contract_id}/status: the answers the handler can give
get_contract_status(id) ==
    IF id \notin DOMAIN contracts
    THEN \* HTTPException(404) is raised inside the try block and caught by
         \* "except Exception"
         {[op |-> "get_contract_status", contract_id |-> id, code |-> 500,
           detail |-> d] : d \in HttpExceptionTexts}
    ELSE {[op |-> "get_contract_status", contract_id |-> id, code |-> 200,
           detail |-> "",
           status |-> contracts[id].status,
           progress_percentage |-> contracts[id].progress_percentage,
           error_message |-> contracts[id].error_message]}

\* slip: the record is served as soon as its status is terminal
get_contract_data_terminal(id) ==
    IF id \notin DOMAIN contracts
    THEN [op |-> "get_contract_data", contract_id |-> id, code |-> 404,
          detail |-> "Contract not found"]
    ELSE IF contracts[id].status \notin {COMPLETED, FAILED}
    THEN [op |-> "get_contract_data", contract_id |-> id, code |-> 400,
          detail |-> "Contract data not available. Status: "
                     \o contracts[id].status]
    ELSE [op |-> "get_contract_data", contract_id |-> id, code |-> 200,
          detail |-> "", body |-> contracts[id]]

\* GET /{contract_id}
get_contract_data(id) ==
    IF id \notin DOMAIN contracts
    THEN [op |-> "get_contract_data", contract_id |-> id, code |-> 404,
          detail |-> "Contract not found"]
    ELSE IF contracts[id].status # COMPLETED
    THEN [op |-> "get_contract_data", contract_id |-> id, code |-> 400,
          detail |-> "Contract data not available. Status: "
                     \o contracts[id].status]
    ELSE [op |-> "get_contract_data", contract_id |-> id, code |-> 200,
          detail |-> "", body |-> contracts[id]]

GetContractStatus(id) ==
    /\ response' \in get_contract_status(id)
    /\ UNCHANGED <<files, contracts, queue, jobs, writes, pvars, cvars>>

GetContractData(id) ==
    /\ response' = get_contract_data(id)
    /\ UNCHANGED <<files, contracts, queue, jobs, writes, pvars, cvars>>

NextApi ==
    \/ NextJobs
    \/ \E id \in ContractIds : GetContractStatus(id)
    \/ \E id \in ContractIds : GetContractData(id)

SpecApi == InitService /\ [][NextApi]_vars

(***************************************************************************)
(* Single calls.  arg is the argument of the call that is followed and     *)
(* result what the calls made so far returned.                             *)
(***************************************************************************)
MaxEvaluations == 2
MaxDocLen == 4

\* the last element of a non-empty sequence
Last(q) == q[Len(q)]

\* the sequences of at most n elements of S
SeqsUpTo(S, n) == UNION {[1..k -> S] : k \in 0..n}

\* the state of the parser pipeline and of the service while a single call
\* is followed
CallOnly ==
    /\ text = PyNone
    /\ hashseed = "first_seen"
    /\ raised = "none"
    /\ data = PyNone
    /\ scores = NotCalled
    /\ gaps = NotCalled
    /\ pc = "call"
    /\ edits = {}
    /\ ServiceIdle

\* the elements of q whose positions are in S, in order
RECURSIVE Pick(_, _)
Pick(q, S) ==
    IF q = <<>> THEN <<>>
    ELSE Pick(SubSeq(q, 1, Len(q) - 1), S)
         \o (IF Len(q) \in S THEN <<q[Len(q)]>> ELSE <<>>)

SubSeqsOf(q) == {Pick(q, S) : S \in SUBSET (1..Len(q))}

\* a contract signed by six people
SignaturePage ==
    <<"Signed by: John Smith;", "Signed by: Ann;", "Signed by: Bob;",
      "Signed by: Cid;", "Signed by: Dan;", "Signed by: Eve;">>

InitSigned ==
    /\ arg \in {PyStr(q) : q \in SubSeqsOf(SignaturePage)}
    /\ result = Return(<<>>)
    /\ CallOnly

\* parser.parse_contract(arg) in a worker process whose string hashes are
\* those of seed
Evaluate(seed) ==
    /\ pc = "call"
    /\ Len(result.v) < MaxEvaluations
    /\ result' = Return(Append(result.v,
                     [seed |-> seed, v |-> parse_contract(arg, seed, "none").v]))
    /\ UNCHANGED <<arg, pvars, svars>>

NextSigned == \E seed \in HashSeeds : Evaluate(seed)

SpecSigned == InitSigned /\ [][NextSigned]_vars

\* texts of whitespace characters and one word
InitClean ==
    /\ arg \in {PyStr(q) : q \in SeqsUpTo(Whitespace \cup {"Net 30;"},
                                          MaxDocLen)}
    /\ result = Return(<<>>)
    /\ CallOnly

\* parser._clean_text(text), applied to arg and then to its own result
CleanText ==
    /\ pc = "call"
    /\ Len(result.v) < MaxEvaluations
    /\ result' = Return(Append(result.v,
                     clean_text(IF result.v = <<>> THEN arg.v
                                ELSE Last(result.v))))
    /\ UNCHANGED <<arg, pvars, svars>>

SpecClean == InitClean /\ [][CleanText]_vars

(***************************************************************************)
(* ContractService.list_contracts.  arg is the contracts collection: the   *)
(* status of each record, in the order the records were created.           *)
(***************************************************************************)
MaxRecords == 3
MaxPage == 3

\* page_size: int = Query(10, ge=1, le=100)
PageSizes == {1, 2, 10, 100}

\* status: Optional[ContractStatus] = None
StatusFilters ==
    {PyNone} \cup {PyStr(x) : x \in {PENDING, PROCESSING, COMPLETED, FAILED}}

\* find(query_filter).sort("created_at", -1): the matching records, the
\* newest first
RECURSIVE Find(_, _)
Find(docs, status) ==
    IF docs = <<>> THEN <<>>
    ELSE (IF Truthy(status) => docs[Len(docs)] = status.v
          THEN <<[contract_id |-> Len(docs), status |-> docs[Len(docs)]]>>
          ELSE <<>>)
         \o Find(SubSeq(docs, 1, Len(docs) - 1), status)

\* cursor.skip(skip).limit(page_size)
SkipLimit(q, skip, limit) ==
    SubSeq(q, skip + 1, IF skip + limit < Len(q) THEN skip + limit ELSE Len(q))

\* slip: total_pages = total // page_size
list_contracts_floor(docs, page, page_size, status) ==
    LET skip == (page - 1) * page_size
        total == Len(Find(docs, status))
    IN  [contracts |-> SkipLimit(Find(docs, status), skip, page_size),
         total |-> total,
         page |-> page,
         page_size |-> page_size,
         total_pages |-> total \div page_size]

list_contracts(docs, page, page_size, status) ==
    LET skip == (page - 1) * page_size
        total == Len(Find(docs, status))
    IN  [contracts |-> SkipLimit(Find(docs, status), skip, page_size),
         total |-> total,
         page |-> page,
         page_size |-> page_size,
         total_pages |-> (total + page_size - 1) \div page_size]

InitList ==
    /\ arg \in SeqsUpTo({PENDING, PROCESSING, COMPLETED, FAILED}, MaxRecords)
    /\ result = NotCalled
    /\ CallOnly

\* GET "" with page, page_size and status
ListContracts(page, page_size, status) ==
    /\ pc = "call"
    /\ result' = [state |-> "returned",
                  v |-> list_contracts(arg, page, page_size, status),
                  status |-> status]
    /\ UNCHANGED <<arg, pvars, svars>>

NextList ==
    \E page \in 1..MaxPage : \E page_size \in PageSizes :
        \E status \in StatusFilters : ListContracts(page, page_size, status)

SpecList == InitList /\ [][NextList]_vars

(***************************************************************************)
(* Single extractors on a text.                                            *)
(***************************************************************************)
\* texts about payment: one phrase for each of payment_terms_patterns
PaymentTokens ==
    {" ", "Net 30;", "Payment terms: 45 days.;", "Due within 15 days;",
     "wire transfer;"}

InitPayment ==
    /\ arg \in {PyStr(q) : q \in SeqsUpTo(PaymentTokens, MaxDocLen)}
    /\ result = NotCalled
    /\ CallOnly

\* self._extract_payment_structure(cleaned_text)
ExtractPaymentStructure ==
    /\ pc = "call"
    /\ result = NotCalled
    /\ result' = Return(extract_payment_structure(clean_text(arg.v), hashseed))
    /\ UNCHANGED <<arg, pvars, svars>>

SpecPayment == InitPayment /\ [][ExtractPaymentStructure]_vars

\* texts about money: phrases for each of money_patterns, one of them
\* without digits
MoneyTokens ==
    {"$50,000;", "$0;", "$,;", "5 dollars;", "Total: 70;", "Amount: $9;"}

InitMoney ==
    /\ arg \in {PyStr(q) : q \in SeqsUpTo(MoneyTokens, MaxDocLen)}
    /\ result = NotCalled
    /\ CallOnly

\* self._extract_financial_details(cleaned_text)
ExtractFinancialDetails ==
    /\ pc = "call"
    /\ result = NotCalled
    /\ result' = Return(extract_financial_details(clean_text(arg.v)))
    /\ UNCHANGED <<arg, pvars, svars>>

SpecMoney == InitMoney /\ [][ExtractFinancialDetails]_vars

(***************************************************************************)
(* update_contract_status, called with any arguments on the record of arg, *)
(* next to the record of another document.  No job runs, so no log of a    *)
(* job's writes is kept.  Time is 0 at the upload and later at each call.  *)
(***************************************************************************)
Times == {1, 2}

\* values of the optional arguments: None, empty, and a truthy value
ErrorMessages == {PyNone, PyStr(""), PyStr(StoreError)}
ExtractedDatas == {PyNone, EmptyDict, EmptyExtractedData}
ConfidenceScoresValues == {PyNone, PyDict(ScoresInit)}
GapAnalyses ==
    {PyNone,
     PyDict([missing_fields |-> <<>>, incomplete_sections |-> <<>>,
             recommendations |-> <<>>])}

InitUpdates ==
    /\ arg \in ContractIds
    /\ result = NotCalled
    /\ files = [id \in ContractIds |-> file_doc(NotAPdf, PdfType)]
    /\ contracts = [id \in ContractIds |->
                       SetIf(contract_doc(NotAPdf.size), TRUE, "updated_at", 0)]
    /\ queue = <<>>
    /\ jobs = NoDocs
    /\ writes = NoDocs
    /\ response = NoResponse
    /\ text = PyNone
    /\ hashseed = "first_seen"
    /\ raised = "none"
    /\ data = PyNone
    /\ scores = NotCalled
    /\ gaps = NotCalled
    /\ pc = "call"
    /\ edits = {}

\* update_contract_status(arg, status, progress_percentage, error_message,
\* extracted_data, confidence_scores, gap_analysis) at time now; the call
\* is kept in result
UpdateContractStatus(now, status, progress_percentage, error_message, extracted_data, confidence_scores, gap_analysis) ==
    /\ pc = "call"
    /\ UpdateOne(arg, SetIf(update_doc(status, progress_percentage,
                                       error_message, extracted_data,
                                       confidence_scores, gap_analysis),
                            TRUE, "updated_at", now))
    /\ result' = [state |-> "returned", v |-> PyNone,
                  call |-> [status |-> status,
                            progress_percentage |-> progress_percentage,
                            updated_at |-> now,
                            error_message |-> error_message,
                            extracted_data |-> extracted_data,
                            confidence_scores |-> confidence_scores,
                            gap_analysis |-> gap_analysis]]
    /\ UNCHANGED <<arg, files, queue, jobs, response, pvars>>

NextUpdates ==
    \E now \in Times : \E status \in {COMPLETED, FAILED} :
    \E progress_percentage \in {0, 100} :
    \E error_message \in ErrorMessages :
    \E extracted_data \in ExtractedDatas :
    \E confidence_scores \in ConfidenceScoresValues :
    \E gap_analysis \in GapAnalyses :
        UpdateContractStatus(now, status, progress_percentage, error_message,
                             extracted_data, confidence_scores, gap_analysis)

SpecUpdates == InitUpdates /\ [][NextUpdates]_vars

(***************************************************************************)
(* Properties.                                                             *)
(***************************************************************************)
\* the value of a field of a section of data when the section is a dict
\* holding it, None otherwise
FieldOf(d, sec, key) ==
    IF IsDictSection(d, sec) /\ key \in DOMAIN d.v[sec].v
    THEN d.v[sec].v[key]
    ELSE PyNone

\* the value of email or phone inside contact_info, None when not there
ContactOf(d, key) ==
    IF HasContactInfoDict(d)
       /\ key \in DOMAIN d.v["account_information"].v["contact_info"].v
    THEN d.v["account_information"].v["contact_info"].v[key]
    ELSE PyNone

Present(d, sec, key) == Truthy(FieldOf(d, sec, key))
ContactPresent(d, key) == Truthy(ContactOf(d, key))

SubScores ==
    {"financial_completeness", "party_identification",
     "payment_terms_clarity", "sla_definition", "contact_information"}

\* C1: whenever calculate_confidence_scores returns, overall_score is
\* exactly the sum of the five sub-scores.
C1_OverallIsSum ==
    Returned(scores) =>
        scores.v.overall_score =
            scores.v.financial_completeness + scores.v.party_identification
            + scores.v.payment_terms_clarity + scores.v.sla_definition
            + scores.v.contact_information

C1_Witness ==
    /\ Returned(scores)
    /\ edits # {}
    /\ scores.v.contact_information > 0
    /\ scores.v.financial_completeness > 0
    /\ scores.v.overall_score < 100

\* C2: whenever calculate_confidence_scores returns, every sub-score lies
\* within its bound (30, 25, 20, 15, 10) and the overall score in 0..100.
C2_SubScoreBounds ==
    Returned(scores) =>
        /\ scores.v.financial_completeness \in 0..30
        /\ scores.v.party_identification \in 0..25
        /\ scores.v.payment_terms_clarity \in 0..20
        /\ scores.v.sla_definition \in 0..15
        /\ scores.v.contact_information \in 0..10
        /\ scores.v.overall_score \in 0..100

C2_Witness ==
    /\ Returned(scores)
    /\ scores.v.financial_completeness = 30
    /\ scores.v.party_identification = 25
    /\ scores.v.payment_terms_clarity = 20
    /\ scores.v.sla_definition = 15
    /\ scores.v.contact_information = 10
    /\ scores.v.overall_score = 100

\* C4 (as stated): when both calls return, a field that earns its weight in
\* the scores never has its covering label in missing_fields.
Labelled(label) == \E i \in 1..Len(gaps.v.missing_fields) :
                       gaps.v.missing_fields[i] = label

C4_NoContradiction ==
    (Returned(scores) /\ Returned(gaps)) =>
        /\ Present(data, "financial_details", "total_value")
               => ~Labelled("Total contract value")
        /\ Present(data, "financial_details", "line_items")
               => ~Labelled("Detailed line items")
        /\ Present(data, "party_identification", "name")
               => ~Labelled("Party names")
        /\ Present(data, "party_identification", "legal_entity")
               => ~Labelled("Party names")
        /\ Present(data, "party_identification", "signatories")
               => ~Labelled("Authorized signatories")
        /\ Present(data, "payment_structure", "payment_terms")
               => ~Labelled("Payment terms")
        /\ Present(data, "payment_structure", "payment_methods")
               => ~Labelled("Payment methods")
        /\ Present(data, "service_level_agreements", "performance_metrics")
               => ~Labelled("Performance metrics")
        /\ ContactPresent(data, "email") => ~Labelled("Contact information")
        /\ ContactPresent(data, "phone") => ~Labelled("Contact information")
        /\ Present(data, "account_information", "account_numbers")
               => ~Labelled("Contact information")

\* C4 (amended): when both calls return, each of total_value, line_items,
\* name, signatories, payment_terms, payment_methods, performance_metrics,
\* email and phone that earns its weight has its covering label absent
\* from missing_fields (legal_entity and account_numbers are not covered:
\* "Party names" follows name and "Contact information" follows
\* contact_info).
C4_NoContradictionCovered ==
    (Returned(scores) /\ Returned(gaps)) =>
        /\ Present(data, "financial_details", "total_value")
               => ~Labelled("Total contract value")
        /\ Present(data, "financial_details", "line_items")
               => ~Labelled("Detailed line items")
        /\ Present(data, "party_identification", "name")
               => ~Labelled("Party names")
        /\ Present(data, "party_identification", "signatories")
               => ~Labelled("Authorized signatories")
        /\ Present(data, "payment_structure", "payment_terms")
               => ~Labelled("Payment terms")
        /\ Present(data, "payment_structure", "payment_methods")
               => ~Labelled("Payment methods")
        /\ Present(data, "service_level_agreements", "performance_metrics")
               => ~Labelled("Performance metrics")
        /\ ContactPresent(data, "email") => ~Labelled("Contact information")
        /\ ContactPresent(data, "phone") => ~Labelled("Contact information")

C4_Witness ==
    /\ Returned(scores)
    /\ Returned(gaps)
    /\ scores.v.contact_information = 5
    /\ scores.v.financial_completeness = 15
    /\ Labelled("Detailed line items")
    /\ ~Labelled("Contact information")

\* C5: whenever calculate_confidence_scores returns, each sub-score is the
\* sum of the full weights of exactly its truthy fields.
C5_WeightsIffTruthy ==
    Returned(scores) =>
        /\ scores.v.financial_completeness =
               (IF Present(data, "financial_details", "total_value")
                THEN 15 ELSE 0)
               + (IF Present(data, "financial_details", "currency")
                  THEN 5 ELSE 0)
               + (IF Present(data, "financial_details", "line_items")
                  THEN 10 ELSE 0)
        /\ scores.v.party_identification =
               (IF Present(data, "party_identification", "name")
                THEN 10 ELSE 0)
               + (IF Present(data, "party_identification", "legal_entity")
                  THEN 8 ELSE 0)
               + (IF Present(data, "party_identification", "signatories")
                  THEN 7 ELSE 0)
        /\ scores.v.payment_terms_clarity =
               (IF Present(data, "payment_structure", "payment_terms")
                THEN 10 ELSE 0)
               + (IF Present(data, "payment_structure", "payment_methods")
                  THEN 5 ELSE 0)
               + (IF Present(data, "payment_structure", "due_dates")
                  THEN 5 ELSE 0)
        /\ scores.v.sla_definition =
               (IF Present(data, "service_level_agreements",
                           "performance_metrics") THEN 8 ELSE 0)
               + (IF Present(data, "service_level_agreements",
                             "penalty_clauses") THEN 4 ELSE 0)
               + (IF Present(data, "service_level_agreements",
                             "support_terms") THEN 3 ELSE 0)
        /\ scores.v.contact_information =
               (IF ContactPresent(data, "email") THEN 5 ELSE 0)
               + (IF ContactPresent(data, "phone") THEN 3 ELSE 0)
               + (IF Present(data, "account_information", "account_numbers")
                  THEN 2 ELSE 0)

C5_Witness ==
    /\ Returned(scores)
    /\ scores.v.sla_definition = 11
    /\ scores.v.financial_completeness = 25
    /\ scores.v.contact_information = 10

\* the scored fields of each section
ScoredKeys(sec) ==
    CASE sec = "party_identification" -> {"name", "legal_entity", "signatories"}
      [] sec = "account_information" -> {"account_numbers"}
      [] sec = "financial_details" -> {"total_value", "currency", "line_items"}
      [] sec = "payment_structure" ->
           {"payment_terms", "payment_methods", "due_dates"}
      [] sec = "revenue_classification" -> {}
      [] sec = "service_level_agreements" ->
           {"performance_metrics", "penalty_clauses", "support_terms"}

\* this step sets one scored field that was falsy to a truthy value and
\* changes nothing else of data
AddsSectionField(sec, key) ==
    /\ IsDictSection(data, sec)
    /\ ~Present(data, sec, key)
    /\ Present(data', sec, key)
    /\ data' = SetSectionKey(data, sec, key, FieldOf(data', sec, key))

AddsContactField(key) ==
    /\ HasContactInfoDict(data)
    /\ ~ContactPresent(data, key)
    /\ ContactPresent(data', key)
    /\ data' = SetContactKey(data, key, ContactOf(data', key))

AddsScoredField ==
    \/ \E sec \in Sections : \E key \in ScoredKeys(sec) :
           AddsSectionField(sec, key)
    \/ \E key \in ContactKeys : AddsContactField(key)

NoScoreLower(before, after) ==
    /\ \A k \in SubScores : after[k] >= before[k]
    /\ after.overall_score >= before.overall_score

\* C6: setting an absent scored field to a truthy value, all else
\* unchanged, lowers no sub-score and not the overall score.
C6_Monotone ==
    [][(data' # data /\ AddsScoredField)
        => LET before == calculate_confidence_scores(data)
               after == calculate_confidence_scores(data')
           IN  Returned(before)
                   => Returned(after) /\ NoScoreLower(before.v, after.v)]_vars

C6_Witness ==
    /\ Returned(scores)
    /\ edits = {<<"financial_details", "total_value">>,
                <<"financial_details", "currency">>,
                <<"financial_details", "line_items">>}
    /\ scores.v.financial_completeness = 30
    /\ scores.v.overall_score = 30

\* the sections of data that are absent: key missing, or value None
AbsentSection(d, sec) == sec \notin DOMAIN d.v \/ d.v[sec] = PyNone

\* nothing but absent sections is irregular: contact_info, when the account
\* section holds it, is a dict
OnlySectionsAbsent(d) ==
    IsDictSection(d, "account_information")
        => ("contact_info" \in DOMAIN d.v["account_information"].v
                => HasGet(d.v["account_information"].v["contact_info"]))

SubScoreOf(sec) ==
    CASE sec = "financial_details" -> "financial_completeness"
      [] sec = "party_identification" -> "party_identification"
      [] sec = "payment_structure" -> "payment_terms_clarity"
      [] sec = "service_level_agreements" -> "sla_definition"
      [] sec = "account_information" -> "contact_information"

\* C7 (as stated): with any subset of the sections absent (key missing or
\* value None), calculate_confidence_scores returns, and scores each absent
\* section as if all its fields were empty.
C7_AbsentSectionsTolerated ==
    (scores # NotCalled /\ OnlySectionsAbsent(data)) =>
        /\ Returned(scores)
        /\ \A sec \in Sections \ {"revenue_classification"} :
               AbsentSection(data, sec) => scores.v[SubScoreOf(sec)] = 0

\* C10: whenever perform_gap_analysis returns, recommendations is built by
\* the three rules in the order (a), (b), (c): (a) iff missing_fields is
\* non-empty, (b) iff it has more than 5 entries, (c) iff total_value is
\* absent; so it has at most 3 entries, none twice.
C10_Recommendations ==
    Returned(gaps) =>
        gaps.v.recommendations =
            (IF Len(gaps.v.missing_fields) > 0
             THEN <<"Request additional contract documentation to fill missing fields">>
             ELSE <<>>)
            \o (IF Len(gaps.v.missing_fields) > 5
                THEN <<"Consider manual review due to significant missing information">>
                ELSE <<>>)
            \o (IF ~Present(data, "financial_details", "total_value")
                THEN <<"Verify contract value with client before processing payments">>
                ELSE <<>>)

C10_Witness ==
    /\ Returned(gaps)
    /\ Len(gaps.v.missing_fields) = 5
    /\ Len(gaps.v.recommendations) = 1

\* the structure parse_contract gives a text without any match
AllDefaults(d) ==
    /\ DOMAIN d.v = Sections
    /\ d.v["party_identification"].v =
           [name |-> PyNone, legal_entity |-> PyNone,
            registration_details |-> PyNone, signatories |-> EmptyList,
            roles |-> EmptyList]
    /\ d.v["account_information"].v =
           [billing_details |-> PyNone, account_numbers |-> EmptyList,
            contact_info |-> EmptyDict]
    /\ d.v["financial_details"].v =
           [line_items |-> EmptyList, total_value |-> PyNone,
            currency |-> PyStr("USD"), tax_info |-> EmptyDict,
            additional_fees |-> EmptyList]
    /\ d.v["payment_structure"].v =
           [payment_terms |-> PyNone, due_dates |-> EmptyList,
            payment_methods |-> EmptyList, banking_details |-> EmptyDict]
    /\ d.v["revenue_classification"].v =
           [payment_type |-> PyNone, billing_cycle |-> PyNone,
            renewal_terms |-> PyNone, auto_renewal |-> PyBool(FALSE)]
    /\ d.v["service_level_agreements"].v =
           [performance_metrics |-> EmptyList, penalty_clauses |-> EmptyList,
            support_terms |-> PyNone, maintenance_terms |-> PyNone]

EmptyTextParsed == text = PyStr(<<>>) /\ raised = "none" /\ pc # "start"

\* C3 (as stated): scoring the result of parsing the empty text yields an
\* overall score of 0.
C3_EmptyTextScoresZero ==
    (EmptyTextParsed /\ scores # NotCalled) =>
        /\ Returned(scores)
        /\ scores.v.overall_score = 0

\* C3 (amended): parse_contract("") returns, without raising, the structure
\* of defaults (currency "USD"), and scoring it yields overall_score 5:
\* financial_completeness 5, every other sub-score 0.
C3_EmptyTextScoresFive ==
    EmptyTextParsed =>
        /\ pc # "failed"
        /\ AllDefaults(data)
        /\ scores # NotCalled =>
               /\ Returned(scores)
               /\ scores.v.financial_completeness = 5
               /\ scores.v.party_identification = 0
               /\ scores.v.payment_terms_clarity = 0
               /\ scores.v.sla_definition = 0
               /\ scores.v.contact_information = 0
               /\ scores.v.overall_score = 5

C3_Witness == EmptyTextParsed /\ Returned(scores)

\* C8: when the normalizer or an extractor raises, parse_contract still
\* returns, and returns the six sections, each an empty mapping, whatever
\* was extracted before the fault.
C8_FailSoft ==
    (pc # "start" /\ raised # "none") =>
        /\ pc # "failed"
        /\ DOMAIN data.v = Sections
        /\ \A sec \in Sections : data.v[sec] = PyDict(NoKeys)

C8_Witness ==
    /\ pc = "input"
    /\ raised = "service_level_agreements"
    /\ text = PyStr(<<"$50,000;", "Net 30;">>)

\* C9 (as stated): every value parse_contract returns holds the six
\* sections, and every section holds all of its field keys.
C9_AllKeysAlways ==
    pc \in {"input", "scored", "analyzed"} =>
        /\ DOMAIN data.v = Sections
        /\ \A sec \in Sections :
               /\ HasGet(data.v[sec])
               /\ DOMAIN data.v[sec].v = SectionKeys(sec)

\* C9 (amended): every value parse_contract returns holds the six sections;
\* on the normal path every section holds all of its field keys; on the
\* fault-fallback path every section is an empty mapping.
C9_KeysOnNormalPath ==
    pc \in {"input", "scored", "analyzed"} =>
        /\ DOMAIN data.v = Sections
        /\ \A sec \in Sections :
               /\ HasGet(data.v[sec])
               /\ raised = "none" => DOMAIN data.v[sec].v = SectionKeys(sec)
               /\ raised # "none" => DOMAIN data.v[sec].v = {}

C9_Witness ==
    /\ pc = "input"
    /\ raised = "none"
    /\ text = PyStr(<<"$50,000;", "Net 30;">>)
    /\ DOMAIN data.v["service_level_agreements"].v =
           {"performance_metrics", "penalty_clauses", "support_terms",
            "maintenance_terms"}

\* the labels, in the given order, of the checklist items that are absent
LabelsOfAbsent(items) ==
    LET RECURSIVE Go(_)
        Go(i) == IF i > Len(items) THEN <<>>
                 ELSE (IF items[i].absent THEN <<items[i].label>> ELSE <<>>)
                      \o Go(i + 1)
    IN  Go(1)

\* C11: whenever perform_gap_analysis returns, missing_fields holds, in
\* checklist order and once each, exactly the labels of the absent items
\* among total value, line items, party name, signatories, payment terms,
\* payment methods, performance metrics, contact info; incomplete_sections
\* holds "Tax information" iff tax_info is absent, and nothing else.
C11_Checklist ==
    Returned(gaps) =>
        /\ gaps.v.missing_fields =
             LabelsOfAbsent(
               <<[absent |-> ~Present(data, "financial_details", "total_value"),
                  label |-> "Total contract value"],
                 [absent |-> ~Present(data, "financial_details", "line_items"),
                  label |-> "Detailed line items"],
                 [absent |-> ~Present(data, "party_identification", "name"),
                  label |-> "Party names"],
                 [absent |-> ~Present(data, "party_identification",
                                      "signatories"),
                  label |-> "Authorized signatories"],
                 [absent |-> ~Present(data, "payment_structure",
                                      "payment_terms"),
                  label |-> "Payment terms"],
                 [absent |-> ~Present(data, "payment_structure",
                                      "payment_methods"),
                  label |-> "Payment methods"],
                 [absent |-> ~Present(data, "service_level_agreements",
                                      "performance_metrics"),
                  label |-> "Performance metrics"],
                 [absent |-> ~Present(data, "account_information",
                                      "contact_info"),
                  label |-> "Contact information"]>>)
        /\ gaps.v.incomplete_sections =
             (IF Present(data, "financial_details", "tax_info")
              THEN <<>> ELSE <<"Tax information">>)

C11_Witness ==
    /\ Returned(gaps)
    /\ gaps.v.missing_fields = <<"Party names", "Authorized signatories">>
    /\ gaps.v.incomplete_sections = <<>>

IsTerminal(status) == status \in {COMPLETED, FAILED}

\* the number of COMPLETED or FAILED writes made to the record of id
TerminalWrites(id) ==
    Cardinality({i \in 1..Len(writes[id]) : IsTerminal(writes[id][i].status)})

\* C12 (as stated): no record is ever written a terminal status twice, and
\* once the job of a document has ended, whichever step failed, COMPLETED or
\* FAILED has been written to its record exactly once.
C12_OneTerminalStatus ==
    /\ \A id \in DOMAIN writes : TerminalWrites(id) <= 1
    /\ \A id \in DOMAIN jobs :
           Finished(id) => /\ TerminalWrites(id) = 1
                           /\ IsTerminal(contracts[id].status)

StatusSteps ==
    {<<PENDING, PROCESSING>>, <<PROCESSING, COMPLETED>>,
     <<PROCESSING, FAILED>>}

\* in this step every new record is PENDING and every record that changes
\* status changes it along one of the allowed pairs
StatusChangesWithin(allowed) ==
    \A id \in DOMAIN contracts' :
        IF id \in DOMAIN contracts
        THEN contracts'[id].status # contracts[id].status
                 => <<contracts[id].status, contracts'[id].status>> \in allowed
        ELSE contracts'[id].status = PENDING

\* C13 (as stated): a record is PENDING after upload and its status only
\* changes PENDING -> PROCESSING, PROCESSING -> COMPLETED or
\* PROCESSING -> FAILED.
C13_StatusMachine == [][StatusChangesWithin(StatusSteps)]_vars

\* C13 (amended): a record is PENDING after upload and its status only
\* changes PENDING -> PROCESSING, PROCESSING -> COMPLETED,
\* PROCESSING -> FAILED or, when the first status write of the job fails,
\* PENDING -> FAILED; COMPLETED is only written over PROCESSING and a
\* COMPLETED or FAILED record never changes status.
C13_StatusMachineEarlyFailure ==
    [][StatusChangesWithin(StatusSteps \cup {<<PENDING, FAILED>>})]_vars

C13_Witness ==
    \E a, b \in DOMAIN writes :
        /\ contracts[a].status = COMPLETED
        /\ writes[b] = <<[status |-> PENDING, progress_percentage |-> 0],
                         [status |-> FAILED, progress_percentage |-> 0]>>

\* C14 (as stated): every write to a record after its creation stores a
\* progress_percentage greater than the one stored before it.
C14_ProgressIncreases ==
    \A id \in DOMAIN writes :
        \A i \in 2..Len(writes[id]) :
            writes[id][i].progress_percentage
                > writes[id][i - 1].progress_percentage

\* C15 (as stated): once process_contract has ended with an exception, the
\* record is FAILED and its error_message is the non-empty text of the
\* exception that made the job fail.
C15_FailureRecorded ==
    \A id \in DOMAIN jobs :
        jobs[id].pc \in {"raised", "handler_raised"} =>
            /\ contracts[id].status = FAILED
            /\ jobs[id].error # ""
            /\ contracts[id].error_message = PyStr(jobs[id].error)

C18_StatusNotFound ==
    \A id \in ContractIds \ DOMAIN contracts :
        \A r \in get_contract_status(id) :
            r.code = 404 /\ r.detail = "Contract not found"

\* C19: an upload whose content type is not application/pdf or whose body
\* is larger than 50 MB is answered 400 and stores no file, creates no
\* record and enqueues no job; a PDF of at most 50 MB passes validation (is
\* never answered 400) and, answered 200, is stored and enqueued.
C19_RejectNoSideEffects ==
    [][\A content_type \in ContentTypes : \A content \in Contents :
          (\E fault \in UploadFaults : Upload(content_type, content, fault))
              => IF content_type # PdfType \/ content.size > 50 * 1024 * 1024
                 THEN /\ response'.code = 400
                      /\ UNCHANGED <<files, contracts, queue, jobs, writes>>
                 ELSE /\ response'.code \in {200, 500}
                      /\ response'.code = 200 =>
                             /\ response'.contract_id \in DOMAIN files'
                             /\ response'.contract_id \in DOMAIN contracts'
                             /\ queue' # queue]_vars

C19_Witness ==
    /\ response.op = "upload"
    /\ response.code = 400
    /\ response.content_type = PdfType
    /\ response.size = 50 * 1024 * 1024 + 1
    /\ \E id \in DOMAIN contracts :
           files[id].content.size = 50 * 1024 * 1024

RECURSIVE Count(_, _)
Count(q, x) ==
    IF q = <<>> THEN 0
    ELSE (IF Head(q) = x THEN 1 ELSE 0) + Count(Tail(q), x)

\* C20: a step in which upload_contract succeeds (answer 200) adds exactly
\* one file document and exactly one record, both under a contract_id not
\* used before, the record PENDING with progress 0 and null error_message,
\* extracted_data, confidence_scores and gap_analysis, appends exactly one
\* job with that id to the queue, and returns that id.
C20_UploadCreatesOneOfEach ==
    [][(response' # response /\ response'.op = "upload"
        /\ response'.code = 200)
       => LET id == response'.contract_id
          IN  /\ id \notin DOMAIN files \cup DOMAIN contracts \cup DOMAIN jobs
              /\ Count(queue, id) = 0
              /\ DOMAIN files' = DOMAIN files \cup {id}
              /\ DOMAIN contracts' = DOMAIN contracts \cup {id}
              /\ \A x \in DOMAIN files : files'[x] = files[x]
              /\ \A x \in DOMAIN contracts : contracts'[x] = contracts[x]
              /\ files'[id].content.size = response'.size
              /\ contracts'[id].status = PENDING
              /\ contracts'[id].progress_percentage = 0
              /\ contracts'[id].error_message = PyNone
              /\ contracts'[id].extracted_data = PyNone
              /\ contracts'[id].confidence_scores = PyNone
              /\ contracts'[id].gap_analysis = PyNone
              /\ queue' = Append(queue, id)
              /\ jobs' = jobs]_vars

C20_Witness ==
    /\ response.op = "upload"
    /\ response.code = 200
    /\ DOMAIN contracts = ContractIds
    /\ Len(queue) = 2

\* the exceptions a run on this file content can end with
AloneErrors(content) ==
    {StoreError, BrokerError}
    \cup (IF content.size = 0 THEN {FileNotFoundText} ELSE {})
    \cup (IF content.size # 0 /\ content.pages = PyNone
          THEN {ExtractErrorText} ELSE {})

\* the record of document id as its own run makes it: a function of the
\* document's own file, of the writes of its own run and of how that run
\* ended, which is the record the run leaves when it is the only run
AloneRecord(id) ==
    LET content == files[id].content
        created == contract_doc(content.size)
        extracted ==
            parse_contract(extract_pdf_text(content).v, hashseed, "none").v
    IN  CASE At(id, "done") ->
               [created EXCEPT
                  !.status = COMPLETED,
                  !.progress_percentage = 100,
                  !.extracted_data = extracted,
                  !.confidence_scores =
                      PyDict(calculate_confidence_scores(extracted).v),
                  !.gap_analysis = PyDict(perform_gap_analysis(extracted).v)]
          [] At(id, "raised") ->
               [created EXCEPT
                  !.status = FAILED,
                  !.progress_percentage = 0,
                  !.error_message = PyStr(jobs[id].error)]
          [] OTHER ->
               [created EXCEPT
                  !.status = Last(writes[id]).status,
                  !.progress_percentage =
                      Last(writes[id]).progress_percentage]

\* C21: with two workers running process_contract on different documents
\* in any interleaving, the record of every document is at every moment the
\* one its own run has written (no write of another run reaches it), and
\* the final record of every document is the one its run leaves when it
\* runs alone: the results of its own file, or the failure of its own run.
C21_NoInterference ==
    /\ \A id \in DOMAIN contracts : contracts[id] = AloneRecord(id)
    /\ \A id \in DOMAIN jobs :
           /\ At(id, "done") => Returned(extract_pdf_text(files[id].content))
           /\ jobs[id].error # "" =>
                  jobs[id].error \in AloneErrors(files[id].content)

C21_Witness ==
    \E a, b \in DOMAIN jobs :
        /\ a # b
        /\ jobs[a].pc = "done"
        /\ contracts[a].status = COMPLETED
        /\ jobs[b].pc = "score"
        /\ Len(writes[b]) = 4
        /\ contracts[b].status = PROCESSING

\* the elements of a list, as a set
Elements(q) == {q[i] : i \in 1..Len(q)}

\* C22 (as stated): any two evaluations of parse_contract on the same text,
\* in the same or in different worker processes, return equal ExtractedData,
\* in particular the same set of signatories.
C22_Deterministic ==
    \A i, j \in 1..Len(result.v) :
        /\ result.v[i].v = result.v[j].v
        /\ Elements(result.v[i].v.v["party_identification"].v["signatories"].v)
             = Elements(result.v[j].v.v["party_identification"]
                            .v["signatories"].v)

\* the positions of the elements of q that are not whitespace, in order
RECURSIVE WordPositions(_)
WordPositions(q) ==
    IF q = <<>> THEN <<>>
    ELSE WordPositions(SubSeq(q, 1, Len(q) - 1))
         \o (IF q[Len(q)] \in Whitespace THEN <<>> ELSE <<Len(q)>>)

\* out is q with every run of whitespace between two words turned into one
\* space and the whitespace before the first and after the last word removed
IsNormalized(out, q) ==
    LET p == WordPositions(q)
        r == WordPositions(out)
    IN  /\ Len(r) = Len(p)
        /\ \A k \in 1..Len(p) : out[r[k]] = q[p[k]]
        /\ \A i \in 1..Len(out) : out[i] \in Whitespace => out[i] = " "
        /\ out # <<>> => r # <<>> /\ r[1] = 1 /\ r[Len(r)] = Len(out)
        /\ \A k \in 1..(Len(p) - 1) :
               r[k + 1] - r[k] = (IF p[k + 1] - p[k] > 1 THEN 2 ELSE 1)

\* C23: _clean_text returns its input with every maximal run of spaces,
\* tabs and newlines between words turned into exactly one space and no
\* whitespace left at either end, returns "" for "", and applied to its own
\* result returns that result unchanged.
C23_Normalizes ==
    /\ Len(result.v) >= 1 =>
           /\ IsNormalized(result.v[1], arg.v)
           /\ arg.v = <<>> => result.v[1] = <<>>
    /\ Len(result.v) >= 2 => result.v[2] = result.v[1]

C23_Witness ==
    /\ arg.v = <<"Net 30;", "\t", "\n", "Net 30;">>
    /\ Len(result.v) = 2
    /\ result.v[1] = <<"Net 30;", " ", "Net 30;">>

\* record number i of the collection is one the status filter lets through
Listed(i, status) == status = PyNone \/ arg[i] = status.v

\* C24: list_contracts answers with total the number of records the status
\* filter lets through, total_pages the least n with n * page_size >= total
\* (0 when total is 0), and as contracts at most page_size records, all let
\* through by the filter, the newest first, starting after exactly
\* (page - 1) * page_size of them and leaving none out in between or, when
\* the page is not full, after.
C24_Pagination ==
    Returned(result) =>
        LET r == result.v
            status == result.status
            skip == (r.page - 1) * r.page_size
            n == Len(r.contracts)
            newer(i) == {j \in (i + 1)..Len(arg) : Listed(j, status)}
            older(i) == {j \in 1..(i - 1) : Listed(j, status)}
        IN  /\ r.total = Cardinality({i \in 1..Len(arg) : Listed(i, status)})
            /\ r.total_pages >= 0
            /\ r.total_pages * r.page_size >= r.total
            /\ r.total_pages > 0 =>
                   (r.total_pages - 1) * r.page_size < r.total
            /\ n <= r.page_size
            /\ \A k \in 1..n :
                   /\ r.contracts[k].contract_id \in 1..Len(arg)
                   /\ r.contracts[k].status = arg[r.contracts[k].contract_id]
                   /\ Listed(r.contracts[k].contract_id, status)
                   /\ Cardinality(newer(r.contracts[k].contract_id))
                          = skip + k - 1
            /\ n = 0 => r.total <= skip
            /\ (n > 0 /\ n < r.page_size) =>
                   older(r.contracts[n].contract_id) = {}

C24_Witness ==
    /\ Returned(result)
    /\ arg = <<COMPLETED, FAILED, COMPLETED>>
    /\ result.status = PyStr(COMPLETED)
    /\ result.v.page = 2
    /\ result.v.page_size = 1
    /\ result.v.total = 2
    /\ result.v.total_pages = 2
    /\ result.v.contracts = <<[contract_id |-> 1, status |-> COMPLETED]>>

\* C25: payment_terms is the leftmost 'net N' match when the text has one,
\* wherever the other phrases stand; else the leftmost 'payment terms'
\* match when it has one; else the leftmost 'due in/within' match; and null
\* iff the text has none of the three.
C25_PatternPriority ==
    Returned(result) =>
        LET q == clean_text(arg.v)
            terms == result.v.v["payment_terms"]
        IN  /\ Found("net", q) => terms = PyStr(Search("net", q).g0)
            /\ (~Found("net", q) /\ Found("payment_terms", q)) =>
                   terms = PyStr(Search("payment_terms", q).g0)
            /\ (~Found("net", q) /\ ~Found("payment_terms", q)
                /\ Found("due_within", q)) =>
                   terms = PyStr(Search("due_within", q).g0)
            /\ terms = PyNone <=>
                   (~Found("net", q) /\ ~Found("payment_terms", q)
                    /\ ~Found("due_within", q))

C25_Witness ==
    /\ Returned(result)
    /\ arg.v = <<"Due within 15 days;", "Payment terms: 45 days.;", " ",
                 "Net 30;">>
    /\ result.v.v["payment_terms"] = PyStr("Net 30")

\* the amounts of the matches of the four money patterns that parse as a
\* number
ParsedAmounts(q) ==
    {ParseFloat(m).v :
        m \in {x \in Elements(FindAllOf(money_patterns, q)) :
                  Returned(ParseFloat(x))}}

\* C26: _extract_financial_details returns, whatever the matches; its
\* total_value is null iff no match of the four money patterns parses as a
\* number, and is otherwise one of the parsed amounts, at least as large as
\* every one of them and not negative.
C26_TotalIsMax ==
    result # NotCalled =>
        /\ Returned(result)
        /\ LET matched == ParsedAmounts(clean_text(arg.v))
               total == result.v.v["total_value"]
           IN  /\ total = PyNone <=> matched = {}
               /\ total # PyNone =>
                      /\ total.t = "float"
                      /\ total.v \in matched
                      /\ \A a \in matched : total.v >= a
                      /\ total.v >= 0

C26_Witness ==
    /\ Returned(result)
    /\ arg.v = <<"$,;", "$0;", "Total: 70;", "5 dollars;">>
    /\ result.v.v["total_value"] = PyFloat(70)

\* C27: in every state of the store, extracted_data, confidence_scores and
\* gap_analysis of a record are all null or all set, and they are set iff
\* the record is COMPLETED, and then its progress_percentage is 100; a
\* PENDING, PROCESSING or FAILED record carries no results.
C27_ResultsWithCompleted ==
    \A id \in DOMAIN contracts :
        LET r == contracts[id]
            have == {k \in {"extracted_data", "confidence_scores",
                            "gap_analysis"} : r[k] # PyNone}
        IN  /\ have = {} \/ have = {"extracted_data", "confidence_scores",
                                    "gap_analysis"}
            /\ have # {} <=> r.status = COMPLETED
            /\ r.status = COMPLETED => r.progress_percentage = 100

C27_Witness ==
    \E a, b \in DOMAIN contracts :
        /\ contracts[a].status = COMPLETED
        /\ contracts[a].gap_analysis # PyNone
        /\ contracts[a].extracted_data # PyNone
        /\ contracts[b].status = FAILED
        /\ contracts[b].error_message = PyStr(BrokerError)
        /\ contracts[b].extracted_data = PyNone

OptionalFields ==
    {"error_message", "extracted_data", "confidence_scores", "gap_analysis"}

\* C28: a call of update_contract_status stores the status, the
\* progress_percentage and the time of the call in the addressed record,
\* changes no other record, leaves each of error_message, extracted_data,
\* confidence_scores and gap_analysis as it was when its argument is None
\* or empty, and so never clears one of the four once it is set.
C28_UpdateFrame ==
    [][LET call == result'.call
       IN  /\ DOMAIN contracts' = DOMAIN contracts
           /\ \A x \in DOMAIN contracts \ {arg} : contracts'[x] = contracts[x]
           /\ contracts'[arg].status = call.status
           /\ contracts'[arg].progress_percentage = call.progress_percentage
           /\ contracts'[arg].updated_at = call.updated_at
           /\ DOMAIN contracts'[arg] = DOMAIN contracts[arg]
           /\ \A k \in OptionalFields :
                  /\ ~Truthy(call[k]) => contracts'[arg][k] = contracts[arg][k]
                  /\ Truthy(call[k]) => contracts'[arg][k] = call[k]
                  /\ contracts[arg][k] # PyNone => Truthy(contracts'[arg][k])
           /\ contracts'[arg].file_size = contracts[arg].file_size
           /\ files' = files]_vars

C28_Witness ==
    /\ Returned(result)
    /\ result.call.status = COMPLETED
    /\ result.call.error_message = PyNone
    /\ contracts[arg].status = COMPLETED
    /\ contracts[arg].error_message = PyStr(StoreError)
    /\ contracts[arg].extracted_data = EmptyExtractedData

\* C29: the scores of what parse_contract extracts from a string lie in a
\* sub-range: financial_completeness is 5 or 20, party_identification is 0,
\* 7, 18 or 25, payment_terms_clarity is at most 15, sla_definition at most
\* 12, and overall_score lies between 5 and 82.
C29_OwnOutputRange ==
    (pc \in {"scored", "analyzed"} /\ text.t = "str" /\ raised = "none") =>
        /\ Returned(scores)
        /\ scores.v.financial_completeness \in {5, 20}
        /\ scores.v.party_identification \in {0, 7, 18, 25}
        /\ scores.v.payment_terms_clarity <= 15
        /\ scores.v.sla_definition <= 12
        /\ scores.v.overall_score >= 5
        /\ scores.v.overall_score <= 82

C29_Witness ==
    /\ pc = "scored"
    /\ raised = "none"
    /\ text = PyStr(<<"ABC Inc.;", "Signed by: John Smith;">>)
    /\ scores.v.party_identification = 25
    /\ scores.v.financial_completeness = 5
    /\ scores.v.overall_score = 30

\* C30: whenever perform_gap_analysis returns, the manual-review and the
\* payment-verification recommendations never appear without the
\* documentation-request recommendation: the list is one of [], [a], [a, b],
\* [a, c], [a, b, c], and it is empty only if total_value is present and
\* missing_fields is empty.
C30_RecommendationShapes ==
    Returned(gaps) =>
        /\ gaps.v.recommendations \in
               {<<>>,
                <<RecDocumentation>>,
                <<RecDocumentation, RecManualReview>>,
                <<RecDocumentation, RecVerifyValue>>,
                <<RecDocumentation, RecManualReview, RecVerifyValue>>}
        /\ gaps.v.recommendations = <<>> =>
               /\ Present(data, "financial_details", "total_value")
               /\ gaps.v.missing_fields = <<>>

C30_Witness ==
    /\ Returned(gaps)
    /\ Present(data, "financial_details", "line_items")
    /\ gaps.v.recommendations = <<RecDocumentation, RecVerifyValue>>

====
